---- MODULE Spec2Model ----
(***************************************************************************)
(* Decentralized inference vault backend (ai_compute):                     *)
(*   AccessValidator  - on-chain access check                              *)
(*   LighthouseClient - content-addressed download with a disk cache       *)
(*   InferenceEngine  - active-model cache, backup model, inference        *)
(*   main             - the FastAPI endpoints composing the three          *)
(*                                                                         *)
(* The server runs on one asyncio event loop: a handler runs atomically    *)
(* between two suspension points.  Token amounts are uint256 values around *)
(* 10^18; they are kept exactly, as two base-10^9 digits <<hi, lo>>        *)
(* standing for hi * 10^9 + lo.                                            *)
(***************************************************************************)
EXTENDS Integers, Sequences, FiniteSets, TLC

VARIABLES
    model_cache,       \* InferenceEngine.model_cache: insertion-ordered dict
    tokenizer_cache,   \* InferenceEngine.tokenizer_cache: set of keys
    backup_model,      \* InferenceEngine.backup_model (NoModel when None)
    backup_tokenizer,  \* InferenceEngine.backup_tokenizer
    backup_snapshot,   \* the snapshot file of the backup model on disk
    file_cache,        \* LighthouseClient cache dir: cid -> file
    loop_time,         \* asyncio event-loop clock
    inflight,          \* load-model handlers suspended inside download_file
    last,              \* the HTTP exchange completed by the latest step, if any
    acc                \* the latest direct call of a component method

vars == <<model_cache, tokenizer_cache, backup_model, backup_tokenizer,
          backup_snapshot, file_cache, loop_time, inflight, last, acc>>

----------------------------------------------------------------------------
(* Token amounts *)

Base == 10^9

Wei(hi, lo) == <<hi, lo>>

\* a >= b on two-digit amounts
GE(a, b) == a[1] > b[1] \/ (a[1] = b[1] /\ a[2] >= b[2])

GT(a, b) == a[1] > b[1] \/ (a[1] = b[1] /\ a[2] > b[2])

\* 1 * (10 ** 18)
min_balance_required == Wei(Base, 0)

OneTokenMinusOne == Wei(Base - 1, Base - 1)

----------------------------------------------------------------------------
(* Request inputs and the blockchain environment *)

ModelIds == {"m1", "m2"}

ValidAddresses == {"0xA11ce0000000000000000000000000000000beef"}

UserAddresses == ValidAddresses \cup {"not-an-address"}

Cids == {"cidA", "cidB"}

TokenContract == "0xT0ken"

Owner == "0x0wner"

Balances == {Wei(0, 0), OneTokenMinusOne, min_balance_required, Wei(2 * Base, 5)}

Prices == {Wei(0, 1), Wei(2 * Base, 7)}

\* what getModelInfo(bytes32).call() hands back: the 6-tuple, or a raise
ModelInfoTuples ==
    [cid : Cids, token_contract : {TokenContract}, price_per_inference : Prices,
     owner : {Owner}, active : BOOLEAN, total_inferences : {7}]

GetModelInfoOutcomes ==
    {[ok |-> FALSE]} \cup {[ok |-> TRUE, val |-> t] : t \in ModelInfoTuples}

BalanceOfOutcomes ==
    {[ok |-> FALSE]} \cup {[ok |-> TRUE, val |-> b] : b \in Balances}

\* One access check's view of the chain.  vault_ok: web3.eth.contract() accepts
\* the configured vault address; token_ok: it accepts the token address the
\* vault returned.
AccessEnvs ==
    [vault_ok : BOOLEAN, info : GetModelInfoOutcomes,
     token_ok : BOOLEAN, balance : BalanceOfOutcomes]

is_address_lenient(a) == TRUE

\* web3.is_address
is_address(a) == a \in ValidAddresses

----------------------------------------------------------------------------
(* AccessValidator.validate_user_access                                    *)
(* An outcome is [raised |-> FALSE, ret |-> the dict returned, calls |-> the *)
(* contract reads performed, in order] or [raised |-> TRUE, exc, calls].   *)

Returns(ret, calls) == [raised |-> FALSE, ret |-> ret, calls |-> calls]

Raises(exc, calls) == [raised |-> TRUE, exc |-> exc, calls |-> calls]

has_access_rule_strict(user_balance) == GT(user_balance, min_balance_required)

\* has_access = user_balance >= min_balance_required
has_access_rule(user_balance) == GE(user_balance, min_balance_required)

contract_error_retry(calls) ==
    Returns([has_access |-> FALSE, error |-> "Model not found or contract error"],
            calls \o <<calls[Len(calls)]>>)

\* the inner except: a failed contract read becomes a denial
contract_error(calls) ==
    Returns([has_access |-> FALSE, error |-> "Model not found or contract error"], calls)

inactive_result_full(t) ==
    [has_access |-> FALSE, error |-> "Model is not active", model_info |-> t]

\* the dict returned for a model whose active flag is false
inactive_result(t) ==
    [has_access |-> FALSE, error |-> "Model is not active",
     model_info |-> [cid |-> t.cid, active |-> t.active, owner |-> t.owner]]

\* the inner try block, entered after the vault contract object was built
read_contracts_balance_first(user_address, env) ==
    IF ~env.info.ok THEN contract_error(<<"getModelInfo">>)
    ELSE IF ~env.token_ok THEN contract_error(<<"getModelInfo">>)
    ELSE IF ~env.balance.ok THEN contract_error(<<"getModelInfo", "balanceOf">>)
    ELSE LET t == env.info.val IN
        IF ~t.active THEN Returns(inactive_result(t), <<"getModelInfo", "balanceOf">>)
        ELSE Returns([has_access |-> has_access_rule(env.balance.val),
                      user_balance |-> env.balance.val,
                      min_balance_required |-> min_balance_required,
                      model_info |-> t],
                     <<"getModelInfo", "balanceOf">>)

read_contracts(user_address, env) ==
    IF ~env.info.ok THEN contract_error(<<"getModelInfo">>)
    ELSE LET t == env.info.val IN
        IF ~t.active THEN Returns(inactive_result(t), <<"getModelInfo">>)
        ELSE IF ~env.token_ok THEN contract_error(<<"getModelInfo">>)
        ELSE IF ~env.balance.ok THEN contract_error(<<"getModelInfo", "balanceOf">>)
        ELSE Returns([has_access |-> has_access_rule(env.balance.val),
                      user_balance |-> env.balance.val,
                      min_balance_required |-> min_balance_required,
                      model_info |-> t],
                     <<"getModelInfo", "balanceOf">>)

validation_error_propagates(o) == o

\* the outer except: anything raised outside the inner try becomes a denial
validation_error(o) ==
    IF o.raised
    THEN Returns([has_access |-> FALSE, error |-> "Validation error"], o.calls)
    ELSE o

validate_user_access(user_address, model_id, env) ==
    validation_error(
        IF ~is_address(user_address)
        THEN Returns([has_access |-> FALSE, error |-> "Invalid user address"], <<>>)
        ELSE IF ~env.vault_ok THEN Raises("InvalidAddress", <<>>)
        ELSE read_contracts(user_address, env))

----------------------------------------------------------------------------
(* AccessValidator.validate_payment                                        *)

\* payment_amount as the caller passes it: an int, or a value that `>=`
\* cannot compare with an int (TypeError)
Payments ==
    {[ok |-> FALSE]}
    \cup {[ok |-> TRUE, val |-> w] :
             w \in {Wei(0, 0), Wei(0, 1), Wei(2 * Base, 6), Wei(2 * Base, 7)}}

payment_sufficient_strict(payment_amount, price) == GT(payment_amount, price)

\* payment_amount >= model_info["price_per_inference"]
payment_sufficient(payment_amount, price) == GE(payment_amount, price)

\* the except clause of validate_payment: any exception becomes False
payment_error(o) == IF o.raised THEN Returns(FALSE, o.calls) ELSE o

\* a: the outcome of the access check validate_payment runs
validate_payment(a, payment_amount) ==
    payment_error(
        IF a.raised THEN a
        ELSE IF ~a.ret.has_access THEN Returns(FALSE, a.calls)
        ELSE IF ~payment_amount.ok THEN Raises("TypeError", a.calls)
        ELSE Returns(payment_sufficient(payment_amount.val,
                                        a.ret.model_info.price_per_inference),
                     a.calls))

\* the chain as a payment validation sees it
PaymentEnvs ==
    {e \in AccessEnvs :
        /\ e.vault_ok /\ e.token_ok
        /\ e.info.ok => e.info.val.cid = "cidA"
        /\ e.balance.ok => e.balance.val \in {OneTokenMinusOne, min_balance_required}}

----------------------------------------------------------------------------
(* InferenceEngine.__init__ *)

NoModel == "None"

\* None as the value of an Optional[str] argument or field
NoneVal == "<None>"

BackupModelName == "Qwen/Qwen2.5-0.5B"

load_backup_model_keeps_tokenizer(snapshot_loads, hub_ok, device_ok) ==
    IF (snapshot_loads \/ hub_ok) /\ device_ok
    THEN [backup_model |-> BackupModelName, backup_tokenizer |-> BackupModelName]
    ELSE IF ~snapshot_loads /\ hub_ok
    THEN [backup_model |-> NoModel, backup_tokenizer |-> BackupModelName]
    ELSE [backup_model |-> NoModel, backup_tokenizer |-> NoModel]

\* _load_backup_model: the snapshot is tried first, then the hub; the model
\* is moved to the device on either path (device_ok: .to(device) works);
\* any exception resets both slots to None.
load_backup_model(snapshot_loads, hub_ok, device_ok) ==
    IF (snapshot_loads \/ hub_ok) /\ device_ok
    THEN [backup_model |-> BackupModelName, backup_tokenizer |-> BackupModelName]
    ELSE [backup_model |-> NoModel, backup_tokenizer |-> NoModel]

backup_snapshot_never_saved(snapshot_loads, hub_ok, device_ok, save_ok) ==
    IF snapshot_loads THEN "loadable" ELSE "none"

\* the snapshot file once _load_backup_model is done: the one that loaded,
\* or the one _save_model_snapshot wrote after a hub fetch (save_ok: the
\* write works; its failure is only logged), else none that loads
backup_snapshot_after(snapshot_loads, hub_ok, device_ok, save_ok) ==
    IF snapshot_loads \/ (hub_ok /\ device_ok /\ save_ok) THEN "loadable" ELSE "none"

\* the steps _load_backup_model takes, in order, each with its success
startup_trace(snapshot_loads, hub_ok, device_ok, save_ok) ==
    <<[step |-> "load_snapshot", ok |-> snapshot_loads]>>
    \o (IF snapshot_loads
        THEN <<[step |-> "to_device", ok |-> device_ok]>>
        ELSE <<[step |-> "hub_fetch", ok |-> hub_ok]>>
             \o (IF hub_ok
                 THEN <<[step |-> "to_device", ok |-> device_ok]>>
                      \o (IF device_ok
                          THEN <<[step |-> "save_snapshot", ok |-> save_ok]>>
                          ELSE <<>>)
                 ELSE <<>>))

\* _save_model_snapshot / _load_model_snapshot at the level of the data.
\* A model object is [config, state_dict]; a config attribute torch_dtype is
\* a torch.dtype object or, once set from a dict, a str.  A tokenizer
\* object is [kind, vocab].  A file name is <<stem, extension>>.
NoObject == [none |-> TRUE]

Dtype(name, as) == [dtype |-> name, as |-> as]

SnapshotModels ==
    {[none |-> FALSE,
      config |-> [hidden_size |-> h, torch_dtype |-> Dtype("float32", "object")],
      state_dict |-> [w \in {"embed_tokens.weight", "lm_head.weight"} |-> h]] :
        h \in {"896", "1024"}}

SnapshotTokenizers ==
    {[none |-> FALSE, kind |-> k, vocab |-> v] :
        k \in {"bpe", "sentencepiece"}, v \in {"vocab-1", "vocab-2"}}

\* config.to_dict(): the attributes in their JSON form, with the keys
\* PretrainedConfig adds
to_dict(config) ==
    [hidden_size |-> config.hidden_size, torch_dtype |-> config.torch_dtype.dtype,
     model_type |-> "qwen2"]

\* the files model.save_pretrained and tokenizer.save_pretrained write
save_pretrained_model(model) ==
    (<<"config", ".json">> :> [json |-> to_dict(model.config)])
    @@ (<<"generation_config", ".json">> :> [json |-> "generation"])
    @@ (<<"model", ".safetensors">> :> [tensors |-> model.state_dict])

save_pretrained_tokenizer(tokenizer) ==
    (<<"tokenizer_config", ".json">> :> [json |-> tokenizer.kind])
    @@ (IF tokenizer.kind = "bpe"
        THEN (<<"vocab", ".json">> :> [json |-> tokenizer.vocab])
             @@ (<<"merges", ".txt">> :> [text |-> tokenizer.vocab])
        ELSE (<<"tokenizer", ".model">> :> [proto |-> tokenizer.vocab]))

keeps_tokenizer_files_only(filename) ==
    filename[2] \in {".json", ".txt", ".model"} /\ filename[1] # "config"

\* any(filename.endswith(ext) for ext in ['.json', '.txt', '.model'])
keeps(filename) == filename[2] \in {".json", ".txt", ".model"}

\* snapshot_data as _save_model_snapshot builds it
snapshot_data_of(model, tokenizer) ==
    LET temp_dir == save_pretrained_model(model) @@ save_pretrained_tokenizer(tokenizer)
    IN [model_name |-> BackupModelName,
        model_config |-> to_dict(model.config),
        model_state_dict |-> model.state_dict,
        tokenizer_config |-> tokenizer.vocab,
        tokenizer_files |-> [f \in {g \in DOMAIN temp_dir : keeps(g)} |-> temp_dir[f]]]

\* the snapshot file: absent, a complete pickle of snapshot_data, or what a
\* write that failed part-way left
AbsentFile == [kind |-> "absent"]

CorruptFile == [kind |-> "corrupt"]

\* What the file system and the library do during one save:
\* save_pretrained works; open(snapshot_file, 'wb') and pickle.dump work
\* ("ok"), the open fails, or the dump fails after the file was truncated.
SaveEnvs == [save_pretrained_ok : BOOLEAN, write : {"ok", "open_error", "partial"}]

\* _save_model_snapshot: [out, file]; every exception is logged inside
save_model_snapshot(file, model, tokenizer, env) ==
    IF ~env.save_pretrained_ok \/ env.write = "open_error"
    THEN [out |-> Returns(NoneVal, <<"log_error">>), file |-> file]
    ELSE IF env.write = "partial"
    THEN [out |-> Returns(NoneVal, <<"log_error">>), file |-> CorruptFile]
    ELSE [out |-> Returns(NoneVal, <<>>),
          file |-> [kind |-> "pickle", data |-> snapshot_data_of(model, tokenizer)]]

\* AutoTokenizer.from_pretrained(temp_dir): needs the tokenizer's files
tokenizer_from_pretrained(temp_dir) ==
    LET names == DOMAIN temp_dir IN
    IF <<"tokenizer_config", ".json">> \notin names THEN Raises("OSError", <<>>)
    ELSE IF <<"vocab", ".json">> \in names /\ <<"merges", ".txt">> \in names
    THEN Returns([none |-> FALSE, kind |-> "bpe",
                  vocab |-> temp_dir[<<"vocab", ".json">>].json], <<>>)
    ELSE IF <<"tokenizer", ".model">> \in names
    THEN Returns([none |-> FALSE, kind |-> "sentencepiece",
                  vocab |-> temp_dir[<<"tokenizer", ".model">>].proto], <<>>)
    ELSE Raises("OSError", <<>>)

\* AutoConfig.from_pretrained(temp_dir): needs config.json
config_from_pretrained(temp_dir) ==
    IF <<"config", ".json">> \notin DOMAIN temp_dir THEN Raises("OSError", <<>>)
    ELSE LET j == temp_dir[<<"config", ".json">>].json IN
         Returns([hidden_size |-> j.hidden_size,
                  torch_dtype |-> Dtype(j.torch_dtype, "object")], <<>>)

\* for key, value in model_config.items(): if hasattr(config, key): setattr
override_config(config, model_config) ==
    [config EXCEPT !.hidden_size = model_config.hidden_size,
                   !.torch_dtype = Dtype(model_config.torch_dtype, "str")]

\* _load_model_snapshot: the pair (model, tokenizer) or (None, None).
\* library_ok: from_config and load_state_dict work on what they are given.
load_model_snapshot(file, library_ok) ==
    IF file.kind = "absent" THEN Returns(<<NoObject, NoObject>>, <<>>)
    ELSE IF file.kind = "corrupt"
    THEN Returns(<<NoObject, NoObject>>, <<"log_error">>)
    ELSE LET temp_dir == file.data.tokenizer_files
             t == tokenizer_from_pretrained(temp_dir)
             c == config_from_pretrained(temp_dir)
         IN IF t.raised \/ c.raised \/ ~library_ok
            THEN Returns(<<NoObject, NoObject>>, <<"log_error">>)
            ELSE Returns(<<[none |-> FALSE,
                            config |-> override_config(c.ret, file.data.model_config),
                            state_dict |-> file.data.model_state_dict],
                           t.ret>>, <<>>)

NoExchange == [ep |-> "none"]

NoCall == [op |-> "none"]

Init ==
    /\ model_cache = <<>>
    /\ tokenizer_cache = {}
    /\ \E snapshot_loads \in BOOLEAN, hub_ok \in BOOLEAN, device_ok \in BOOLEAN,
          save_ok \in BOOLEAN :
          LET b == load_backup_model(snapshot_loads, hub_ok, device_ok) IN
          /\ backup_model = b.backup_model
          /\ backup_tokenizer = b.backup_tokenizer
          /\ backup_snapshot =
                backup_snapshot_after(snapshot_loads, hub_ok, device_ok, save_ok)
    /\ file_cache = [c \in Cids |-> [cached |-> FALSE]]
    /\ loop_time = 0
    /\ inflight = <<>>
    /\ last = NoExchange
    /\ acc = NoCall

----------------------------------------------------------------------------
(* InferenceEngine: the active-model cache (a dict, kept in insertion order *)
(* as a sequence of [id, type, loaded_at])                                 *)

CacheKeys(mc) == [i \in 1..Len(mc) |-> mc[i].id]

CacheHas(mc, id) == \E i \in 1..Len(mc) : mc[i].id = id

CacheGet(mc, id) == mc[CHOOSE i \in 1..Len(mc) : mc[i].id = id]

\* self.model_cache[model_id] = model_info
CachePut(mc, e) ==
    IF CacheHas(mc, e.id)
    THEN [i \in 1..Len(mc) |-> IF mc[i].id = e.id THEN e ELSE mc[i]]
    ELSE Append(mc, e)

\* del self.model_cache[model_id]
CacheDel(mc, id) == SelectSeq(mc, LAMBDA e : e.id # id)

max_model_size_mb == 1000

MB == 1024 * 1024

\* Model bytes: their length and which loader accepts them
\* ("torch": torch.load, "pickle": pickle.load only, "other": neither).
\* The gateway is content-addressed: one blob per content identifier.
Blob(cid) ==
    IF cid = "cidA" THEN [len |-> 2048, fmt |-> "torch"]
    ELSE [len |-> 2048, fmt |-> "other"]

\* the largest content length load_model accepts, in bytes
SizeLimitBytes == max_model_size_mb * MB

\* Model bytes handed to the engine directly: lengths around the limit, in
\* each format
ModelContents ==
    [len : {2048, SizeLimitBytes, SizeLimitBytes + 1}, fmt : {"torch", "pickle", "other"}]

size_exceeds_inclusive(len) == len >= SizeLimitBytes

\* model_size_mb > self.max_model_size_mb, where model_size_mb is
\* len(model_content) / (1024 * 1024): a float division by a power of two,
\* exact for every length below 2^53, so the test is len > limit in bytes
size_exceeds(len) == len > SizeLimitBytes

load_model_content_skips_pickle(content, now, hub_ok) ==
    IF content.fmt = "torch"
    THEN [raised |-> FALSE, type |-> "pytorch", loaded_at |-> now,
          tried |-> <<"torch.load">>]
    ELSE IF hub_ok
    THEN [raised |-> FALSE, type |-> "huggingface_pipeline", loaded_at |-> now,
          tried |-> <<"torch.load", "pipeline">>]
    ELSE [raised |-> TRUE, exc |-> "Unable to load model - unsupported format",
          tried |-> <<"torch.load", "pipeline">>]

\* _load_model_content: torch.load, then pickle.load, then the fixed hub
\* pipeline (hub_ok: the hub download works), else ValueError.
\* tried: the loaders called, in order.
load_model_content(content, now, hub_ok) ==
    IF content.fmt = "torch"
    THEN [raised |-> FALSE, type |-> "pytorch", loaded_at |-> now,
          tried |-> <<"torch.load">>]
    ELSE IF content.fmt = "pickle"
    THEN [raised |-> FALSE, type |-> "pickle", loaded_at |-> now,
          tried |-> <<"torch.load", "pickle.load">>]
    ELSE IF hub_ok
    THEN [raised |-> FALSE, type |-> "huggingface_pipeline", loaded_at |-> now,
          tried |-> <<"torch.load", "pickle.load", "pipeline">>]
    ELSE [raised |-> TRUE, exc |-> "Unable to load model - unsupported format",
          tried |-> <<"torch.load", "pickle.load", "pipeline">>]

engine_load_model_reload(mc, now, model_id, content, hub_ok) ==
    LET c == load_model_content(content, now, hub_ok) IN
    IF c.raised
    THEN [result |-> [status |-> "error", message |-> "Failed to load model: format"],
          model_cache |-> mc, loop_time |-> now, tried |-> c.tried]
    ELSE [result |-> [status |-> "success", message |-> "Model loaded successfully",
                      model_type |-> c.type, device |-> "cpu"],
          model_cache |-> CachePut(mc, [id |-> model_id, type |-> c.type,
                                        loaded_at |-> c.loaded_at]),
          loop_time |-> now, tried |-> c.tried]

\* InferenceEngine.load_model: [result, model_cache, loop_time, tried]
engine_load_model(mc, now, model_id, content, hub_ok) ==
    IF CacheHas(mc, model_id)
    THEN [result |-> [status |-> "success", message |-> "Model loaded from cache"],
          model_cache |-> mc, loop_time |-> now, tried |-> <<>>]
    ELSE IF size_exceeds(content.len)
    THEN [result |-> [status |-> "error", message |-> "Failed to load model: size"],
          model_cache |-> mc, loop_time |-> now, tried |-> <<>>]
    ELSE LET c == load_model_content(content, now, hub_ok) IN
         IF c.raised
         THEN [result |-> [status |-> "error", message |-> "Failed to load model: format"],
               model_cache |-> mc, loop_time |-> now, tried |-> c.tried]
         ELSE [result |-> [status |-> "success", message |-> "Model loaded successfully",
                           model_type |-> c.type, device |-> "cpu"],
               model_cache |-> CachePut(mc, [id |-> model_id, type |-> c.type,
                                             loaded_at |-> c.loaded_at]),
               loop_time |-> now, tried |-> c.tried]

\* unload_model and clear_cache take the engine object: its four slots
engine_unload_model_clears(self, model_id) ==
    [ret |-> TRUE, self |-> [self EXCEPT !.model_cache = <<>>]]

\* InferenceEngine.unload_model: [ret, self]
engine_unload_model(self, model_id) ==
    IF CacheHas(self.model_cache, model_id)
    THEN [ret |-> TRUE,
          self |-> [self EXCEPT !.model_cache = CacheDel(@, model_id),
                                !.tokenizer_cache = @ \ {model_id}]]
    ELSE [ret |-> FALSE, self |-> self]

engine_clear_cache_and_backup(self) ==
    [self EXCEPT !.model_cache = <<>>, !.tokenizer_cache = {},
                 !.backup_model = NoModel, !.backup_tokenizer = NoModel]

\* InferenceEngine.clear_cache
engine_clear_cache(self) ==
    [self EXCEPT !.model_cache = <<>>, !.tokenizer_cache = {}]

\* InferenceEngine.get_loaded_models
engine_get_loaded_models(mc) == CacheKeys(mc)

\* InferenceEngine.get_model_info: the info dict, or None
engine_get_model_info(mc, model_id) ==
    IF CacheHas(mc, model_id)
    THEN [found |-> TRUE, model_id |-> model_id, type |-> CacheGet(mc, model_id).type,
          loaded_at |-> CacheGet(mc, model_id).loaded_at, device |-> "cpu"]
    ELSE [found |-> FALSE]

----------------------------------------------------------------------------
(* InferenceEngine.run_inference and the backup path                       *)

\* The defs of the class body that matter here, in source order.  A class
\* body is executed top to bottom: a later def of a name replaces the
\* earlier one.  params counts self.
InferenceEngineDefs ==
    << [name |-> "load_model", line |-> 46, params |-> 3],
       [name |-> "run_inference", line |-> 130, params |-> 3],
       [name |-> "execute_inference", line |-> 175, params |-> 3],
       [name |-> "run_inference", line |-> 412, params |-> 2],
       [name |-> "_run_backup_inference", line |-> 428, params |-> 2] >>

\* the attribute a lookup of `name` on the class finds
ClassAttr(name) ==
    LET I == {i \in 1..Len(InferenceEngineDefs) : InferenceEngineDefs[i].name = name}
    IN InferenceEngineDefs[CHOOSE i \in I : \A j \in I : j <= i]

\* the names bound at module level in inference_engine.py
ModuleGlobals ==
    {"os", "io", "pickle", "logging", "tempfile", "Dict", "Any", "Optional", "torch",
     "np", "AutoTokenizer", "AutoModelForCausalLM", "AutoConfig", "pipeline",
     "asyncio", "logger", "InferenceEngine"}

\* What the runtime objects do during one inference:
\*   primary: the cached model's call (a "value", an "empty" output, a
\*            timeout of wait_for, or an exception);
\*   backup:  backup_model.generate + decode ("text", only blanks, exception);
\*   hub_ok:  from_pretrained("Qwen/Qwen2.5-0.5B") succeeds.
InferEnvs ==
    [primary : {"value", "empty", "timeout", "raise"},
     backup : {"text", "blank", "raise"},
     hub_ok : BOOLEAN]

InputDatas == {[text |-> "hello"], [features |-> "1,2"], [n |-> 1]}

\* _execute_inference: dispatch on the type tag; each type checks the input
\* keys it needs before it calls the model and raises ValueError on an
\* empty output.
execute_inference(model_type, input_data, ienv) ==
    LET keys == DOMAIN input_data
        accepted ==
            CASE model_type = "pytorch" -> ("tensor" \in keys \/ "text" \in keys)
              [] model_type = "pickle" -> "features" \in keys
              [] model_type = "huggingface_pipeline" -> "text" \in keys
              [] OTHER -> FALSE
    IN IF ~accepted \/ ienv.primary = "empty" THEN "raise" ELSE ienv.primary

\* _run_backup_inference (lines 428-479)
run_backup_inference(bm, bt, input_data, ienv) ==
    IF bm # NoModel /\ bt # NoModel /\ ienv.backup # "raise"
    THEN Returns([status |-> "success", model_id |-> "backup_cache_model",
                  model_type |-> "backup_huggingface",
                  result |-> IF ienv.backup = "text" THEN "generated text" ELSE "",
                  fallback |-> TRUE], <<"backup_cached">>)
    ELSE IF ~ienv.hub_ok THEN Raises("OSError", <<"backup_cached", "backup_fresh">>)
    ELSE IF "run_inference" \notin ModuleGlobals
    THEN Raises("NameError", <<"backup_cached", "backup_fresh">>)
    ELSE Returns([status |-> "success", model_id |-> "default_fallback",
                  model_type |-> "default", result |-> "generated text",
                  fallback |-> TRUE, default_response |-> TRUE],
                 <<"backup_cached", "backup_fresh">>)

\* _extract_text_input.  An input mapping is a dict in insertion order: a
\* sequence of [key, value] with distinct keys; a value is a str (v: a
\* sequence of characters) or an int (n).
PromptKeys == <<"text", "prompt", "query", "input", "message">>

MaxFields == 2

FieldKeys == {"text", "message", "note", "id"}

FieldValues ==
    {[type |-> "str", v |-> x] : x \in {<<" ", "h", " ">>, <<" ">>}}
    \cup {[type |-> "int", n |-> 7]}

Mappings ==
    UNION {{d \in [1..n -> [key : FieldKeys, value : FieldValues]] :
               \A i, j \in 1..n : i # j => d[i].key # d[j].key} : n \in 0..MaxFields}

\* str(value)
str(value) == IF value.type = "str" THEN value.v ELSE <<"7">>

\* str.strip() on a sequence of characters
strip(x) ==
    LET solid == {i \in DOMAIN x : x[i] # " "} IN
    IF solid = {} THEN <<>>
    ELSE SubSeq(x, CHOOSE i \in solid : \A j \in solid : i <= j,
                   CHOOSE i \in solid : \A j \in solid : j <= i)

DefaultPrompt == <<"Hello, how can you help me?">>

HasKey(input_data, k) == \E i \in DOMAIN input_data : input_data[i].key = k

Lookup(input_data, k) ==
    input_data[CHOOSE i \in DOMAIN input_data : input_data[i].key = k].value

extract_text_input_first_field(input_data) ==
    IF input_data = <<>> THEN DefaultPrompt ELSE str(input_data[1].value)

\* _extract_text_input(input_data)
extract_text_input(input_data) ==
    LET named == {n \in DOMAIN PromptKeys : HasKey(input_data, PromptKeys[n])}
        texts == {i \in DOMAIN input_data :
                     /\ input_data[i].value.type = "str"
                     /\ Len(strip(input_data[i].value.v)) > 0} IN
    IF named # {}
    THEN str(Lookup(input_data, PromptKeys[CHOOSE n \in named : \A k \in named : n <= k]))
    ELSE IF texts # {}
    THEN strip(input_data[CHOOSE i \in texts : \A j \in texts : i <= j].value.v)
    ELSE DefaultPrompt

Prepend(x, o) == [o EXCEPT !.calls = <<x>> \o o.calls]

\* the def at line 130: run_inference(self, model_id, input_data)
run_inference_130(mc, bm, bt, model_id, input_data, ienv) ==
    IF ~CacheHas(mc, model_id) THEN run_backup_inference(bm, bt, input_data, ienv)
    ELSE LET t == CacheGet(mc, model_id).type
             r == execute_inference(t, input_data, ienv)
         IN IF r = "value"
            THEN Returns([status |-> "success", model_id |-> model_id, model_type |-> t,
                          result |-> "prediction", device |-> "cpu"], <<"primary">>)
            ELSE Prepend("primary", run_backup_inference(bm, bt, input_data, ienv))

\* the def at line 412: run_inference(model, tokenizer), first parameter
\* bound to the instance; it calls tokenizer.apply_chat_template
run_inference_412(self, tokenizer) == Raises("AttributeError", <<>>)

\* the bound-method call inference_engine.run_inference(model_id, input_data)
\* as main.py makes it: instance plus two positional arguments
engine_run_inference(mc, bm, bt, model_id, input_data, ienv) ==
    LET f == ClassAttr("run_inference") IN
    IF f.params # 3 THEN Raises("TypeError", <<>>)
    ELSE IF f.line = 130 THEN run_inference_130(mc, bm, bt, model_id, input_data, ienv)
    ELSE run_inference_412(model_id, input_data)

\* the def at line 175: execute_inference(self, input_data, model_id=None)
engine_execute_inference(mc, bm, bt, input_data, model_id, ienv) ==
    IF model_id = NoneVal \/ ~CacheHas(mc, model_id)
    THEN run_backup_inference(bm, bt, input_data, ienv)
    ELSE engine_run_inference(mc, bm, bt, model_id, input_data, ienv)

\* the runtime outcomes a run_inference call can consume
RunInferenceEnvs ==
    IF ClassAttr("run_inference").line = 130 /\ ClassAttr("run_inference").params = 3
    THEN InferEnvs
    ELSE {[primary |-> "value", backup |-> "text", hub_ok |-> TRUE]}

\* the runtime outcomes an execute_inference call can consume: the primary
\* model is called only through run_inference
ExecuteInferenceEnvs ==
    IF ClassAttr("run_inference").line = 130 /\ ClassAttr("run_inference").params = 3
    THEN InferEnvs
    ELSE {e \in InferEnvs : e.primary = "value"}

----------------------------------------------------------------------------
(* LighthouseClient *)

\* a key whose .encode() raises (a lone surrogate from a JSON escape)
BadKey == "\\ud800"

Keys == {NoneVal, "k", BadKey}

\* Python truth value of an Optional[str]
Truthy(x) == x # NoneVal /\ x # ""

\* HTTP error statuses of the gateway
ErrorStatuses == {404, 503}

\* What the I/O of one gateway fetch does: the GET answers 2xx and the body
\* is written ("ok"); raise_for_status raises; the GET itself fails; the
\* cache file cannot be opened for writing; the write fails after the file
\* was created.
NetOutcomes ==
    {[kind |-> k] : k \in {"ok", "transport_error", "open_error", "write_error"}}
    \cup {[kind |-> "http_error", status_code |-> c] : c \in ErrorStatuses}

\* what a write that failed part-way leaves in the cache file: a prefix
Truncated(content) == [len |-> content.len \div 2, fmt |-> "other"]

\* is_cached / os.path.exists(cache_path)
is_cached(fc, cid) == fc[cid].cached

\* download_file up to its first await: the os.path.exists test decides
\* between reading the cache file and fetching from the gateway
download_begin(fc, cid) == IF is_cached(fc, cid) THEN "reading" ELSE "fetching"

download_error_generic(net, calls) == Raises([msg |-> "Download error"], calls)

\* the two except clauses of download_file
download_error(net, calls) ==
    IF net.kind = "http_error"
    THEN Raises([msg |-> "Failed to download file", status_code |-> net.status_code],
                calls)
    ELSE Raises([msg |-> "Download error"], calls)

download_finish_no_persist(fc, cid, phase, net) ==
    IF phase = "reading"
    THEN IF is_cached(fc, cid)
         THEN [out |-> Returns(fc[cid].content, <<>>), file_cache |-> fc]
         ELSE [out |-> Raises([msg |-> "Download error"], <<>>), file_cache |-> fc]
    ELSE IF net.kind = "ok"
    THEN [out |-> Returns(Blob(cid), <<"GET">>), file_cache |-> fc]
    ELSE [out |-> download_error(net, <<"GET">>), file_cache |-> fc]

download_finish_creates_file_first(fc, cid, phase, net) ==
    IF phase = "reading"
    THEN IF is_cached(fc, cid)
         THEN [out |-> Returns(fc[cid].content, <<>>), file_cache |-> fc]
         ELSE [out |-> Raises([msg |-> "Download error"], <<>>), file_cache |-> fc]
    ELSE IF net.kind = "ok"
    THEN [out |-> Returns(Blob(cid), <<"GET">>),
          file_cache |-> [fc EXCEPT ![cid] = [cached |-> TRUE, content |-> Blob(cid)]]]
    ELSE [out |-> download_error(net, <<"GET">>),
          file_cache |-> [fc EXCEPT ![cid] = [cached |-> TRUE,
                                              content |-> Truncated(Blob(cid))]]]

\* download_file from its first await on: [out, file_cache].  In the
\* reading phase the file may have been removed since the exists test.
download_finish(fc, cid, phase, net) ==
    IF phase = "reading"
    THEN IF is_cached(fc, cid)
         THEN [out |-> Returns(fc[cid].content, <<>>), file_cache |-> fc]
         ELSE [out |-> Raises([msg |-> "Download error"], <<>>), file_cache |-> fc]
    ELSE IF net.kind = "ok"
    THEN [out |-> Returns(Blob(cid), <<"GET">>),
          file_cache |-> [fc EXCEPT ![cid] = [cached |-> TRUE, content |-> Blob(cid)]]]
    ELSE IF net.kind = "write_error"
    THEN [out |-> download_error(net, <<"GET">>),
          file_cache |-> [fc EXCEPT ![cid] = [cached |-> TRUE,
                                              content |-> Truncated(Blob(cid))]]]
    ELSE [out |-> download_error(net, <<"GET">>), file_cache |-> fc]

\* the orders in which os.listdir may list the cache directory
ListDirOrders ==
    {o \in [1..Cardinality(Cids) -> Cids] : \A c \in Cids : \E i \in DOMAIN o : o[i] = c}

\* What the file system does during one clear_cache: the files whose
\* os.remove raises, and the order of os.listdir
RemoveEnvs == [fails : SUBSET Cids, order : ListDirOrders]

\* the cached files, in listing order, that the loop of clear_cache removes
\* before an os.remove raises and ends the loop
RemovedBeforeError(fc, rm) ==
    LET listing == SelectSeq(rm.order, LAMBDA c : is_cached(fc, c))
        stops == {i \in DOMAIN listing : listing[i] \in rm.fails}
        stop == IF stops = {} THEN Len(listing) + 1
                ELSE CHOOSE i \in stops : \A j \in stops : i <= j
    IN {listing[i] : i \in 1..(stop - 1)}

lighthouse_clear_cache_all(fc, cid, rm) ==
    LET removed == RemovedBeforeError(fc, rm) IN
    [out |-> Returns(NoneVal, <<>>),
     file_cache |-> [c \in DOMAIN fc |-> IF c \in removed THEN [cached |-> FALSE]
                                         ELSE fc[c]],
     error_logged |-> \E c \in DOMAIN fc : is_cached(fc, c) /\ c \in rm.fails]

\* LighthouseClient.clear_cache(cid): one cache file, or every *.cached file
\* when cid is None or empty; an exception of os.remove or os.listdir is
\* logged inside.  [out, file_cache, error_logged]
lighthouse_clear_cache(fc, cid, rm) ==
    IF Truthy(cid)
    THEN IF cid \in DOMAIN fc /\ is_cached(fc, cid)
         THEN IF cid \in rm.fails
              THEN [out |-> Returns(NoneVal, <<>>), file_cache |-> fc,
                    error_logged |-> TRUE]
              ELSE [out |-> Returns(NoneVal, <<>>),
                    file_cache |-> [fc EXCEPT ![cid] = [cached |-> FALSE]],
                    error_logged |-> FALSE]
         ELSE [out |-> Returns(NoneVal, <<>>), file_cache |-> fc,
               error_logged |-> FALSE]
    ELSE LET removed == RemovedBeforeError(fc, rm) IN
         [out |-> Returns(NoneVal, <<>>),
          file_cache |-> [c \in DOMAIN fc |-> IF c \in removed THEN [cached |-> FALSE]
                                              ELSE fc[c]],
          error_logged |-> \E c \in DOMAIN fc : is_cached(fc, c) /\ c \in rm.fails]

\* the characters of a checksum string and str.lower on them
HexChars == {"a", "b", "1", "2", "A", "B"}

LowerChar(ch) == IF ch = "A" THEN "a" ELSE IF ch = "B" THEN "b" ELSE ch

\* str.lower
lower(s) == [i \in DOMAIN s |-> LowerChar(s[i])]

\* the contents handed to validate_file_integrity: bytes objects, and a str,
\* which hashlib.sha256 rejects with a TypeError
IntegrityContents ==
    {[type |-> "bytes", data |-> "model-a"], [type |-> "bytes", data |-> "model-b"],
     [type |-> "str", data |-> "model-a"]}

\* hashlib.sha256(content).hexdigest(): lower-case hex, a different digest
\* for each of the byte strings of the model (digests shortened to 3 chars)
sha256_hexdigest(content) ==
    IF content.type # "bytes" THEN Raises("TypeError", <<>>)
    ELSE IF content.data = "model-a" THEN Returns(<<"a", "b", "1">>, <<>>)
    ELSE Returns(<<"b", "a", "2">>, <<>>)

\* the expected_checksum arguments: None, the empty string, the digests of
\* the byte strings in every mix of upper and lower case, and strings that
\* are the digest of neither
Checksums ==
    {[none |-> TRUE]}
    \cup {[none |-> FALSE, s |-> x] :
             x \in {<<>>} \cup {y \in [1..3 -> HexChars] :
                                  \/ lower(y) = <<"a", "b", "1">>
                                  \/ lower(y) = <<"b", "a", "2">>
                                  \/ y = <<"a", "b", "2">>}}

\* truth value of an Optional[str] checksum
ChecksumGiven(x) == ~x.none /\ x.s # <<>>

checksum_matches_case_sensitive(actual_checksum, expected_checksum) ==
    actual_checksum = expected_checksum

\* actual_checksum.lower() == expected_checksum.lower()
checksum_matches(actual_checksum, expected_checksum) ==
    lower(actual_checksum) = lower(expected_checksum)

\* validate_file_integrity(content, expected_checksum)
validate_file_integrity(content, expected_checksum) ==
    IF ~ChecksumGiven(expected_checksum) THEN Returns(TRUE, <<>>)
    ELSE LET h == sha256_hexdigest(content) IN
         IF h.raised THEN Returns(FALSE, <<"log_error">>)
         ELSE Returns(checksum_matches(h.ret, expected_checksum.s), <<>>)

\* decrypt_file: Fernet with a freshly generated key rejects the token and
\* the content comes back unchanged; only a key that cannot be encoded raises
decrypt_file(content, key) ==
    IF key = BadKey THEN Raises([msg |-> "Failed to decrypt file"], <<>>)
    ELSE Returns(content, <<>>)

----------------------------------------------------------------------------
(* main.py: the endpoint functions.  An endpoint outcome is                *)
(* [raised |-> TRUE, code, detail] for a raised HTTPException and          *)
(* [raised |-> FALSE, body] for a returned body.                           *)

HTTPException(code, detail) == [raised |-> TRUE, code |-> code, detail |-> detail]

Response(body) == [raised |-> FALSE, body |-> body]

\* Bodies of POST /api/v1/models/load: m1 is published as cidA and m2 as
\* cidB; the key variants and the malformed address occur on m1.
LoadRequests ==
    {r \in [model_id : ModelIds, user_address : UserAddresses, cid : Cids,
            decryption_key : Keys, user_signature : {NoneVal}] :
        /\ r.model_id = "m1" <=> r.cid = "cidA"
        /\ (r.decryption_key # NoneVal \/ r.user_address \notin ValidAddresses)
              => (r.model_id = "m1"
                  /\ (r.decryption_key = NoneVal \/ r.user_address \in ValidAddresses))}

\* Bodies of POST /api/v1/inference/run
RunRequests == {r \in LoadRequests : r.decryption_key = NoneVal}

\* Bodies of POST /api/v1/inference
InferenceRequests ==
    {r \in [model_id : ModelIds, user_address : UserAddresses, input_data : InputDatas,
            user_signature : {NoneVal}] :
        (r.user_address \notin ValidAddresses \/ r.input_data # [text |-> "hello"])
            => (r.model_id = "m1"
                /\ (r.user_address \in ValidAddresses \/ r.input_data = [text |-> "hello"]))}

\* the chain as the HTTP flows see it: the vault contract is configured, it
\* records cidA for every model, and the balance is one unit either side of
\* the threshold
HttpAccessEnvs ==
    {e \in AccessEnvs :
        /\ e.vault_ok /\ e.token_ok
        /\ e.info.ok => (e.info.val.cid = "cidA"
                         /\ e.info.val.price_per_inference = Wei(2 * Base, 7))
        /\ e.balance.ok => e.balance.val \in {OneTokenMinusOne, min_balance_required}}

AccessTable ==
    [u \in UserAddresses |->
        [m \in ModelIds |-> {validate_user_access(u, m, e) : e \in HttpAccessEnvs}]]

\* the outcomes validate_user_access can have for a request
AccessOutcomes(user_address, model_id) == AccessTable[user_address][model_id]

access_denied_detail(ret) ==
    [msg |-> "Access denied",
     reason |-> IF "error" \in DOMAIN ret THEN ret.error ELSE "Insufficient tokens"]

\* the outer handlers of load_model: an HTTPException passes, any other
\* exception becomes a 500
load_model_except_all_500(code, detail) ==
    HTTPException(500, [msg |-> "Internal server error"])

load_model_except(code, detail) == HTTPException(code, detail)

\* POST /api/v1/models/load up to the first await of download_file.
\* a: the outcome of validate_user_access for this request.
\* [done |-> TRUE, out, access, log] or [done |-> FALSE, susp].
load_model_begin_download_first(fc, req, a, ep) ==
    IF a.raised
    THEN [done |-> TRUE, out |-> HTTPException(500, [msg |-> "Internal server error"]),
          log |-> <<"download_file", "validate_user_access">>]
    ELSE [done |-> FALSE,
          susp |-> [ep |-> ep, req |-> req, phase |-> download_begin(fc, req.cid),
                    access |-> a.ret,
                    log |-> <<"download_file", "validate_user_access">>]]

load_model_begin_unenforced(fc, req, a, ep) ==
    IF a.raised
    THEN [done |-> TRUE, out |-> HTTPException(500, [msg |-> "Internal server error"]),
          log |-> <<"validate_user_access">>]
    ELSE [done |-> FALSE,
          susp |-> [ep |-> ep, req |-> req, phase |-> download_begin(fc, req.cid),
                    access |-> a.ret,
                    log |-> <<"validate_user_access", "download_file">>]]

load_model_begin(fc, req, a, ep) ==
    IF a.raised
    THEN [done |-> TRUE, out |-> HTTPException(500, [msg |-> "Internal server error"]),
          log |-> <<"validate_user_access">>]
    ELSE IF ~a.ret.has_access
    THEN [done |-> TRUE, out |-> load_model_except(403, access_denied_detail(a.ret)),
          access |-> a.ret, log |-> <<"validate_user_access">>]
    ELSE [done |-> FALSE,
          susp |-> [ep |-> ep, req |-> req, phase |-> download_begin(fc, req.cid),
                    access |-> a.ret,
                    log |-> <<"validate_user_access", "download_file">>]]

load_model_resume_onchain_cid(mc, now, fc, susp, net, hub_ok, fault) ==
    LET req == susp.req
        d == download_finish(fc, susp.access.model_info.cid, susp.phase, net)
        same == [model_cache |-> mc, loop_time |-> now, file_cache |-> d.file_cache,
                 download |-> d.out, access |-> susp.access]
    IN IF d.out.raised
       THEN [out |-> load_model_except(502, [msg |-> "Failed to download model",
                                             reason |-> d.out.exc]),
             log |-> susp.log] @@ same
       ELSE LET wants == Truthy(req.decryption_key)
                dec == IF wants THEN decrypt_file(d.out.ret, req.decryption_key)
                       ELSE Returns(d.out.ret, <<>>)
                log1 == IF wants THEN Append(susp.log, "decrypt_file") ELSE susp.log
            IN IF dec.raised
               THEN [out |-> load_model_except(400, [msg |-> "Failed to decrypt model",
                                                     reason |-> dec.exc]),
                     log |-> log1, decrypt |-> dec] @@ same
               ELSE LET l == engine_load_model(mc, now, req.model_id, dec.ret, hub_ok)
                        log2 == Append(log1, "load_model")
                        after == [model_cache |-> l.model_cache, loop_time |-> l.loop_time,
                                  file_cache |-> d.file_cache, download |-> d.out,
                                  access |-> susp.access, load_result |-> l.result,
                                  decrypt |-> IF wants THEN dec ELSE NoCall]
                    IN IF l.result.status = "error"
                       THEN [out |-> load_model_except(400, [msg |-> l.result.message]),
                             log |-> log2] @@ after
                       ELSE IF fault
                       THEN [out |-> HTTPException(500, [msg |-> "Internal server error"]),
                             log |-> log2, fault |-> TRUE] @@ after
                       ELSE [out |-> Response([status |-> "success",
                                               message |-> "Model loaded successfully",
                                               model_id |-> req.model_id,
                                               model_info |-> susp.access.model_info,
                                               load_result |-> l.result]),
                             log |-> log2] @@ after

\* POST /api/v1/models/load from the completion of the download on.
\* net: the gateway's answer; hub_ok: the hub serves the placeholder pipeline;
\* fault: the runtime raises (MemoryError) while the response is built.
\* [out, log, access, download, decrypt, load_result, model_cache, loop_time,
\*  file_cache], each step's field present when the step was reached
load_model_resume(mc, now, fc, susp, net, hub_ok, fault) ==
    LET req == susp.req
        d == download_finish(fc, req.cid, susp.phase, net)
        same == [model_cache |-> mc, loop_time |-> now, file_cache |-> d.file_cache,
                 download |-> d.out, access |-> susp.access]
    IN IF d.out.raised
       THEN [out |-> load_model_except(502, [msg |-> "Failed to download model",
                                             reason |-> d.out.exc]),
             log |-> susp.log] @@ same
       ELSE LET wants == Truthy(req.decryption_key)
                dec == IF wants THEN decrypt_file(d.out.ret, req.decryption_key)
                       ELSE Returns(d.out.ret, <<>>)
                log1 == IF wants THEN Append(susp.log, "decrypt_file") ELSE susp.log
            IN IF dec.raised
               THEN [out |-> load_model_except(400, [msg |-> "Failed to decrypt model",
                                                     reason |-> dec.exc]),
                     log |-> log1, decrypt |-> dec] @@ same
               ELSE LET l == engine_load_model(mc, now, req.model_id, dec.ret, hub_ok)
                        log2 == Append(log1, "load_model")
                        after == [model_cache |-> l.model_cache, loop_time |-> l.loop_time,
                                  file_cache |-> d.file_cache, download |-> d.out,
                                  access |-> susp.access, load_result |-> l.result,
                                  decrypt |-> IF wants THEN dec ELSE NoCall]
                    IN IF l.result.status = "error"
                       THEN [out |-> load_model_except(400, [msg |-> l.result.message]),
                             log |-> log2] @@ after
                       ELSE IF fault
                       THEN [out |-> HTTPException(500, [msg |-> "Internal server error"]),
                             log |-> log2, fault |-> TRUE] @@ after
                       ELSE [out |-> Response([status |-> "success",
                                               message |-> "Model loaded successfully",
                                               model_id |-> req.model_id,
                                               model_info |-> susp.access.model_info,
                                               load_result |-> l.result]),
                             log |-> log2] @@ after

\* POST /api/v1/inference.  a: the outcome of validate_user_access;
\* ienv: what the runtime objects do.  [out, access, loaded, engine, log]
ep_run_inference_guarded(mc, bm, bt, req, a, ienv) ==
    IF a.raised \/ ~a.ret.has_access \/ ~engine_get_model_info(mc, req.model_id).found
    THEN [out |-> Response([status |-> "error", model_id |-> req.model_id,
                            error |-> "Access denied or model not loaded"]),
          log |-> <<"validate_user_access", "get_model_info">>,
          loaded |-> engine_get_model_info(mc, req.model_id).found,
          access |-> IF a.raised THEN [has_access |-> FALSE] ELSE a.ret]
    ELSE LET e == engine_run_inference(mc, bm, bt, req.model_id, req.input_data, ienv)
         IN [out |-> IF e.raised
                     THEN Response([status |-> "error", model_id |-> req.model_id,
                                    error |-> "Internal server error"])
                     ELSE Response([status |-> "success", model_id |-> req.model_id,
                                    result |-> e.ret.result,
                                    message |-> "Inference completed successfully"]),
             log |-> <<"validate_user_access", "get_model_info", "run_inference">>,
             loaded |-> TRUE, access |-> a.ret, engine |-> e]

ep_run_inference_raises(mc, bm, bt, req, a, ienv) ==
    LET info == engine_get_model_info(mc, req.model_id)
        e == engine_run_inference(mc, bm, bt, req.model_id, req.input_data, ienv)
        log == <<"validate_user_access", "get_model_info", "run_inference">>
    IN IF e.raised
       THEN [out |-> HTTPException(500, [msg |-> "Internal server error",
                                         exc |-> e.exc]),
             log |-> log, access |-> a.ret, loaded |-> info.found, engine |-> e]
       ELSE [out |-> Response([status |-> "success", model_id |-> req.model_id,
                               result |-> e.ret.result,
                               message |-> "Inference completed successfully"]),
             log |-> log, access |-> a.ret, loaded |-> info.found, engine |-> e]

ep_run_inference(mc, bm, bt, req, a, ienv) ==
    IF a.raised
    THEN [out |-> Response([status |-> "error", model_id |-> req.model_id,
                            error |-> [msg |-> "Internal server error",
                                       exc |-> a.exc]]),
          log |-> <<"validate_user_access">>]
    ELSE LET info == engine_get_model_info(mc, req.model_id)
             e == engine_run_inference(mc, bm, bt, req.model_id, req.input_data, ienv)
             log == <<"validate_user_access", "get_model_info", "run_inference">>
         IN IF e.raised
            THEN [out |-> Response([status |-> "error", model_id |-> req.model_id,
                                    error |-> [msg |-> "Internal server error",
                                               exc |-> e.exc]]),
                  log |-> log, access |-> a.ret, loaded |-> info.found, engine |-> e]
            ELSE [out |-> Response([status |-> "success", model_id |-> req.model_id,
                                    result |-> e.ret.result,
                                    message |-> "Inference completed successfully"]),
                  log |-> log, access |-> a.ret, loaded |-> info.found, engine |-> e]

SampleInput == [text |-> "Hello, this is a test inference"]

sample_request_caller_input(req) ==
    [model_id |-> req.model_id, user_address |-> req.user_address,
     input_data |-> [text |-> req.cid], user_signature |-> req.user_signature]

\* the InferenceRequest built by load_and_run_inference
sample_request(req) ==
    [model_id |-> req.model_id, user_address |-> req.user_address,
     input_data |-> SampleInput, user_signature |-> req.user_signature]

\* the except clause of load_and_run_inference: whatever was raised inside,
\* an HTTPException included, is raised again as a 500
load_and_run_except(out) ==
    IF out.raised THEN HTTPException(500, [msg |-> "str(e)", inner |-> out]) ELSE out

\* POST /api/v1/inference/run up to the first await of download_file
load_and_run_begin(mc, bm, bt, fc, req, a, ienv) ==
    IF engine_get_model_info(mc, req.model_id).found
    THEN LET r == ep_run_inference(mc, bm, bt, sample_request(req), a, ienv)
         IN [done |-> TRUE, loaded_here |-> FALSE, out |-> load_and_run_except(r.out),
             log |-> <<"get_model_info", "run_inference_endpoint">>,
             inference_request |-> sample_request(req), inference |-> r]
    ELSE LET b == load_model_begin(fc, req, a, "run")
         IN IF b.done
            THEN [done |-> TRUE, loaded_here |-> TRUE, out |-> load_and_run_except(b.out),
                  log |-> <<"get_model_info", "load_model_endpoint">>, load |-> b]
            ELSE b

\* POST /api/v1/inference/run from the completion of the download on.
\* a2: the outcome of the access check the inference endpoint makes.
load_and_run_resume(mc, now, bm, bt, fc, susp, net, hub_ok, fault, a2, ienv) ==
    LET l == load_model_resume(mc, now, fc, susp, net, hub_ok, fault)
        state == [model_cache |-> l.model_cache, loop_time |-> l.loop_time,
                  file_cache |-> l.file_cache]
    IN IF l.out.raised
       THEN [out |-> load_and_run_except(l.out), loaded_here |-> TRUE,
             log |-> <<"get_model_info", "load_model_endpoint">>, load |-> l] @@ state
       ELSE LET r == ep_run_inference(l.model_cache, bm, bt, sample_request(susp.req),
                                      a2, ienv)
            IN [out |-> load_and_run_except(r.out), loaded_here |-> TRUE,
                log |-> <<"get_model_info", "load_model_endpoint",
                          "run_inference_endpoint">>,
                load |-> l, inference_request |-> sample_request(susp.req),
                inference |-> r] @@ state

\* GET /api/v1/models
ep_list_loaded_models(mc) ==
    LET loaded_models == engine_get_loaded_models(mc) IN
    Response([status |-> "success", loaded_models |-> loaded_models,
              count |-> Len(loaded_models)])

\* GET /api/v1/models/{model_id}
ep_get_model_info(mc, model_id) ==
    LET model_info == engine_get_model_info(mc, model_id) IN
    IF ~model_info.found
    THEN HTTPException(404, [msg |-> "Model not found or not loaded"])
    ELSE Response([status |-> "success", model_info |-> model_info])

ep_unload_model_always_ok(self, model_id) ==
    [out |-> Response([status |-> "success", message |-> "Model unloaded successfully",
                       model_id |-> model_id]),
     self |-> engine_unload_model(self, model_id).self]

\* DELETE /api/v1/models/{model_id}: [out, self]
ep_unload_model(self, model_id) ==
    LET u == engine_unload_model(self, model_id) IN
    IF ~u.ret
    THEN [out |-> HTTPException(404, [msg |-> "Model not found or not loaded"]),
          self |-> u.self]
    ELSE [out |-> Response([status |-> "success", message |-> "Model unloaded successfully",
                            model_id |-> model_id]),
          self |-> u.self]

\* DELETE /api/v1/cache: the engine's clear_cache, then the storage client's
\* clear_cache(), which removes the *.cached files of its cache directory;
\* the snapshot file is a .pkl file of another directory.
\* [out, self, file_cache, backup_snapshot]
ep_clear_cache(self, fc, snapshot, rm) ==
    [out |-> Response([status |-> "success", message |-> "All caches cleared"]),
     self |-> engine_clear_cache(self),
     file_cache |-> lighthouse_clear_cache(fc, NoneVal, rm).file_cache,
     backup_snapshot |-> snapshot]

Code(out) == IF out.raised THEN out.code ELSE 200

----------------------------------------------------------------------------
(* The HTTP server: one action per handler segment between suspensions.    *)
(* The event-loop clock ticks once per accepted request.                   *)

\* Under Spec a client waits for the answer to its load before it sends the
\* next one, so one handler at most is suspended in a download while other
\* requests are served.
Capacity == Cardinality({"client"})

MaxTime == 3

\* what a handler outcome shows to the outside: everything but the state
Obs(r) == [f \in (DOMAIN r \ {"model_cache", "loop_time", "file_cache"}) |-> r[f]]

Exchange(ep, req, r) == [ep |-> ep, req |-> req, code |-> Code(r.out)] @@ Obs(r)

\* the inference_engine object
EngineSelf ==
    [model_cache |-> model_cache, tokenizer_cache |-> tokenizer_cache,
     backup_model |-> backup_model, backup_tokenizer |-> backup_tokenizer]

\* POST /api/v1/models/load arrives
LoadBegin ==
    /\ loop_time < MaxTime
    /\ Len(inflight) < Capacity
    /\ \E req \in LoadRequests :
       \E a \in AccessOutcomes(req.user_address, req.model_id) :
          LET b == load_model_begin(file_cache, req, a, "load") IN
          IF b.done
          THEN /\ last' = Exchange("load", req, b)
               /\ UNCHANGED inflight
          ELSE /\ inflight' = Append(inflight, b.susp)
               /\ last' = NoExchange
    /\ loop_time' = loop_time + 1
    /\ UNCHANGED <<model_cache, tokenizer_cache, backup_model, backup_tokenizer, backup_snapshot,
                   file_cache, acc>>

\* POST /api/v1/inference/run arrives
LoadAndRunBegin ==
    /\ loop_time < MaxTime
    /\ Len(inflight) < Capacity
    /\ \E req \in RunRequests :
       \E a \in AccessOutcomes(req.user_address, req.model_id) :
       \E ienv \in RunInferenceEnvs :
          LET b == load_and_run_begin(model_cache, backup_model, backup_tokenizer,
                                      file_cache, req, a, ienv) IN
          IF b.done
          THEN /\ last' = Exchange("run", req, b)
               /\ UNCHANGED inflight
          ELSE /\ inflight' = Append(inflight, b.susp)
               /\ last' = NoExchange
    /\ loop_time' = loop_time + 1
    /\ UNCHANGED <<model_cache, tokenizer_cache, backup_model, backup_tokenizer, backup_snapshot,
                   file_cache, acc>>

RemoveAt(q, i) == [j \in 1..(Len(q) - 1) |-> IF j < i THEN q[j] ELSE q[j + 1]]

\* the download of a suspended /api/v1/models/load completes
LoadResume ==
    \E i \in 1..Len(inflight) :
       /\ inflight[i].ep = "load"
       /\ \E net \in NetOutcomes, hub_ok \in BOOLEAN, fault \in BOOLEAN :
             LET r == load_model_resume(model_cache, loop_time, file_cache,
                                        inflight[i], net, hub_ok, fault) IN
             /\ last' = Exchange("load", inflight[i].req, r)
             /\ model_cache' = r.model_cache
             /\ file_cache' = r.file_cache
       /\ inflight' = RemoveAt(inflight, i)
       /\ UNCHANGED <<tokenizer_cache, backup_model, backup_tokenizer, backup_snapshot, loop_time, acc>>

\* the download of a suspended /api/v1/inference/run completes
LoadAndRunResume ==
    \E i \in 1..Len(inflight) :
       /\ inflight[i].ep = "run"
       /\ \E net \in NetOutcomes, hub_ok \in BOOLEAN, fault \in BOOLEAN :
          \E a2 \in AccessOutcomes(inflight[i].req.user_address, inflight[i].req.model_id) :
          \E ienv \in RunInferenceEnvs :
             LET r == load_and_run_resume(model_cache, loop_time, backup_model,
                                          backup_tokenizer, file_cache, inflight[i],
                                          net, hub_ok, fault, a2, ienv) IN
             /\ last' = Exchange("run", inflight[i].req, r)
             /\ model_cache' = r.model_cache
             /\ file_cache' = r.file_cache
       /\ inflight' = RemoveAt(inflight, i)
       /\ UNCHANGED <<tokenizer_cache, backup_model, backup_tokenizer, backup_snapshot, loop_time, acc>>

\* POST /api/v1/inference
Inference ==
    /\ loop_time < MaxTime
    /\ \E req \in InferenceRequests :
       \E a \in AccessOutcomes(req.user_address, req.model_id) :
       \E ienv \in RunInferenceEnvs :
          LET r == ep_run_inference(model_cache, backup_model, backup_tokenizer,
                                    req, a, ienv) IN
          last' = Exchange("inference", req, r)
    /\ loop_time' = loop_time + 1
    /\ UNCHANGED <<model_cache, tokenizer_cache, backup_model, backup_tokenizer, backup_snapshot,
                   file_cache, inflight, acc>>

\* GET /api/v1/models
ListLoadedModels ==
    /\ last' = Exchange("list_loaded_models", NoCall,
                        [out |-> ep_list_loaded_models(model_cache)])
    /\ UNCHANGED <<model_cache, tokenizer_cache, backup_model, backup_tokenizer,
                   backup_snapshot, file_cache, loop_time, inflight, acc>>

\* GET /api/v1/models/{model_id}
GetModelInfo ==
    /\ \E m \in ModelIds :
          last' = Exchange("get_model_info", [model_id |-> m],
                           [out |-> ep_get_model_info(model_cache, m)])
    /\ UNCHANGED <<model_cache, tokenizer_cache, backup_model, backup_tokenizer,
                   backup_snapshot, file_cache, loop_time, inflight, acc>>

\* DELETE /api/v1/models/{model_id}
UnloadModel ==
    /\ loop_time < MaxTime
    /\ \E m \in ModelIds :
          LET r == ep_unload_model(EngineSelf, m) IN
          /\ model_cache' = r.self.model_cache
          /\ tokenizer_cache' = r.self.tokenizer_cache
          /\ backup_model' = r.self.backup_model
          /\ backup_tokenizer' = r.self.backup_tokenizer
          /\ last' = Exchange("unload_model", [model_id |-> m],
                              [out |-> r.out, before |-> CacheKeys(model_cache)])
    /\ loop_time' = loop_time + 1
    /\ UNCHANGED <<backup_snapshot, file_cache, inflight, acc>>

\* DELETE /api/v1/cache
ClearCache ==
    /\ loop_time < MaxTime
    /\ \E rm \in RemoveEnvs :
       LET r == ep_clear_cache(EngineSelf, file_cache, backup_snapshot, rm) IN
          /\ model_cache' = r.self.model_cache
          /\ tokenizer_cache' = r.self.tokenizer_cache
          /\ backup_model' = r.self.backup_model
          /\ backup_tokenizer' = r.self.backup_tokenizer
          /\ backup_snapshot' = r.backup_snapshot
          /\ file_cache' = r.file_cache
          /\ last' = Exchange("clear_cache", NoCall,
                              [out |-> r.out, before |-> CacheKeys(model_cache)])
    /\ loop_time' = loop_time + 1
    /\ UNCHANGED <<inflight, acc>>

Next ==
    \/ LoadBegin
    \/ LoadResume
    \/ LoadAndRunBegin
    \/ LoadAndRunResume
    \/ Inference
    \/ ListLoadedModels
    \/ GetModelInfo
    \/ UnloadModel
    \/ ClearCache

Spec == Init /\ [][Next]_vars

----------------------------------------------------------------------------
(* Overlapping POST /api/v1/models/load requests.  Each handler runs on the *)
(* one event loop: from its start to the await of the gateway's answer,     *)
(* and from there to its end, since decrypt_file, engine.load_model and     *)
(* _load_model_content contain no await that suspends.  acc keeps the       *)
(* number of requests begun and the record of each request that ended.      *)

MaxRequests == 2

\* requests for either model with a well-formed address and no key
RaceRequests ==
    {r \in LoadRequests : r.user_address \in ValidAddresses /\ r.decryption_key = NoneVal}

Begun == IF acc.op = "requests" THEN acc.begun ELSE 0

Ended == IF acc.op = "requests" THEN acc.ended ELSE <<>>

\* the numbers of the requests suspended in download_file
Pending == {inflight[i].no : i \in DOMAIN inflight}

\* a load request arrives and runs up to the await in download_file
RaceLoadBegin ==
    /\ Begun < MaxRequests
    /\ \E req \in RaceRequests :
       \E a \in AccessOutcomes(req.user_address, req.model_id) :
          LET b == load_model_begin(file_cache, req, a, "load")
              no == Begun + 1 IN
          IF b.done
          THEN /\ acc' = [op |-> "requests", begun |-> no,
                          ended |-> Append(Ended,
                                     [no |-> no, model_id |-> req.model_id,
                                      code |-> Code(b.out), load_result |-> NoCall,
                                      at |-> loop_time, pending |-> Pending,
                                      cached_at_start |->
                                          CacheHas(model_cache, req.model_id),
                                      cached_at_resume |-> FALSE])]
               /\ UNCHANGED inflight
          ELSE /\ inflight' = Append(inflight,
                                     [no |-> no,
                                      cached_at_start |->
                                          CacheHas(model_cache, req.model_id)]
                                     @@ b.susp)
               /\ acc' = [op |-> "requests", begun |-> no, ended |-> Ended]
    /\ UNCHANGED <<model_cache, tokenizer_cache, backup_model, backup_tokenizer,
                   backup_snapshot, file_cache, loop_time, last>>

\* the gateway answers a suspended request, which then runs to its end
RaceLoadResume ==
    \E i \in 1..Len(inflight) :
       /\ \E net \in NetOutcomes, hub_ok \in BOOLEAN, fault \in BOOLEAN :
             LET r == load_model_resume(model_cache, loop_time, file_cache,
                                        inflight[i], net, hub_ok, fault) IN
             /\ model_cache' = r.model_cache
             /\ file_cache' = r.file_cache
             /\ acc' = [op |-> "requests", begun |-> Begun,
                        ended |-> Append(Ended,
                                   [no |-> inflight[i].no,
                                    model_id |-> inflight[i].req.model_id,
                                    code |-> Code(r.out),
                                    load_result |-> IF "load_result" \in DOMAIN r
                                                    THEN r.load_result ELSE NoCall,
                                    at |-> loop_time,
                                    pending |-> Pending \ {inflight[i].no},
                                    cached_at_start |-> inflight[i].cached_at_start,
                                    cached_at_resume |->
                                        CacheHas(model_cache, inflight[i].req.model_id)])]
       /\ inflight' = RemoveAt(inflight, i)
       /\ loop_time' = loop_time + 1
       /\ UNCHANGED <<tokenizer_cache, backup_model, backup_tokenizer, backup_snapshot,
                      last>>

NextRace ==
    \/ RaceLoadBegin
    \/ RaceLoadResume

SpecRace == Init /\ [][NextRace]_vars

----------------------------------------------------------------------------
(* Direct calls of the access-control component *)

CallValidateUserAccess ==
    /\ \E u \in UserAddresses, m \in ModelIds, env \in AccessEnvs :
          acc' = [op |-> "validate_user_access", user_address |-> u, model_id |-> m,
                  env |-> env, out |-> validate_user_access(u, m, env)]
    /\ UNCHANGED <<model_cache, tokenizer_cache, backup_model, backup_tokenizer, backup_snapshot,
                   file_cache, loop_time, inflight, last>>

\* await access_validator.validate_payment(user_address, model_id, payment_amount)
CallValidatePayment ==
    /\ \E u \in UserAddresses, m \in ModelIds, env \in PaymentEnvs, pay \in Payments :
          LET a == validate_user_access(u, m, env) IN
          acc' = [op |-> "validate_payment", user_address |-> u, model_id |-> m,
                  payment_amount |-> pay, access |-> a,
                  out |-> validate_payment(a, pay)]
    /\ UNCHANGED <<model_cache, tokenizer_cache, backup_model, backup_tokenizer, backup_snapshot,
                   file_cache, loop_time, inflight, last>>

NextAccess ==
    \/ CallValidateUserAccess
    \/ CallValidatePayment

SpecAccess == Init /\ [][NextAccess]_vars

----------------------------------------------------------------------------
(* Direct calls of the inference engine's methods *)

\* the identifiers loaded with success by the calls made so far and not
\* unloaded or cleared since
Live == IF "live" \in DOMAIN acc THEN acc.live ELSE {}

\* await engine.load_model(model_id, model_content)
CallLoadModel ==
    /\ loop_time < MaxTime
    /\ \E m \in ModelIds, content \in ModelContents, hub_ok \in BOOLEAN :
          LET l == engine_load_model(model_cache, loop_time, m, content, hub_ok) IN
          /\ model_cache' = l.model_cache
          /\ acc' = [op |-> "load_model", model_id |-> m, content |-> content,
                     before |-> model_cache, tried |-> l.tried,
                     out |-> Returns(l.result, <<>>),
                     live |-> IF l.result.status = "success" THEN Live \cup {m}
                              ELSE Live]
    /\ loop_time' = loop_time + 1
    /\ UNCHANGED <<tokenizer_cache, backup_model, backup_tokenizer, backup_snapshot,
                   file_cache, inflight, last>>

\* what the cached model would do during a run_inference call: each outcome
\* of the primary model, with a backup path that works unless the call can
\* consume more
PrimaryEnvs ==
    RunInferenceEnvs \cup {e \in InferEnvs : e.backup = "text" /\ e.hub_ok}

\* await engine.run_inference(model_id, input_data)
CallRunInference ==
    /\ \E m \in ModelIds, input_data \in InputDatas, ienv \in PrimaryEnvs :
          acc' = [op |-> "run_inference", model_id |-> m, input_data |-> input_data,
                  loaded |-> CacheHas(model_cache, m), primary |-> ienv.primary,
                  out |-> engine_run_inference(model_cache, backup_model,
                                               backup_tokenizer, m, input_data, ienv),
                  live |-> Live]
    /\ UNCHANGED <<model_cache, tokenizer_cache, backup_model, backup_tokenizer,
                   backup_snapshot, file_cache, loop_time, inflight, last>>

CallExecuteInference_stores_backup ==
    /\ \E m \in ModelIds \cup {NoneVal}, input_data \in InputDatas,
          ienv \in ExecuteInferenceEnvs :
          LET out == engine_execute_inference(model_cache, backup_model,
                                              backup_tokenizer, input_data, m, ienv)
              fresh == ienv.hub_ok /\ \E i \in DOMAIN out.calls :
                                         out.calls[i] = "backup_fresh"
          IN  /\ acc' = [op |-> "execute_inference", model_id |-> m,
                         input_data |-> input_data,
                         loaded |-> (m # NoneVal /\ CacheHas(model_cache, m)),
                         out |-> out, fresh_download_ok |-> fresh, live |-> Live]
              /\ backup_model' = IF fresh THEN BackupModelName ELSE backup_model
              /\ backup_tokenizer' = IF fresh THEN BackupModelName
                                     ELSE backup_tokenizer
    /\ UNCHANGED <<model_cache, tokenizer_cache, backup_snapshot, file_cache,
                   loop_time, inflight, last>>

\* await engine.execute_inference(input_data, model_id)
CallExecuteInference ==
    /\ \E m \in ModelIds \cup {NoneVal}, input_data \in InputDatas,
          ienv \in ExecuteInferenceEnvs :
          acc' = [op |-> "execute_inference", model_id |-> m, input_data |-> input_data,
                  loaded |-> (m # NoneVal /\ CacheHas(model_cache, m)),
                  out |-> engine_execute_inference(model_cache, backup_model,
                                                   backup_tokenizer, input_data, m, ienv),
                  fresh_download_ok |->
                      /\ ienv.hub_ok
                      /\ \E i \in DOMAIN engine_execute_inference(
                                     model_cache, backup_model, backup_tokenizer,
                                     input_data, m, ienv).calls :
                            engine_execute_inference(
                               model_cache, backup_model, backup_tokenizer,
                               input_data, m, ienv).calls[i] = "backup_fresh",
                  live |-> Live]
    /\ UNCHANGED <<model_cache, tokenizer_cache, backup_model, backup_tokenizer,
                   backup_snapshot, file_cache, loop_time, inflight, last>>

\* engine.unload_model(model_id)
CallUnloadModel ==
    /\ \E m \in ModelIds :
          LET r == engine_unload_model(EngineSelf, m) IN
          /\ model_cache' = r.self.model_cache
          /\ tokenizer_cache' = r.self.tokenizer_cache
          /\ backup_model' = r.self.backup_model
          /\ backup_tokenizer' = r.self.backup_tokenizer
          /\ acc' = [op |-> "unload_model", model_id |-> m, before |-> model_cache,
                     out |-> Returns(r.ret, <<>>), live |-> Live \ {m}]
    /\ UNCHANGED <<backup_snapshot, file_cache, loop_time, inflight, last>>

\* engine.clear_cache()
CallClearCache ==
    /\ LET e == engine_clear_cache(EngineSelf) IN
          /\ model_cache' = e.model_cache
          /\ tokenizer_cache' = e.tokenizer_cache
          /\ backup_model' = e.backup_model
          /\ backup_tokenizer' = e.backup_tokenizer
    /\ acc' = [op |-> "clear_cache", before |-> model_cache, live |-> {}]
    /\ UNCHANGED <<backup_snapshot, file_cache, loop_time, inflight, last>>

\* the process is started again: InferenceEngine() is constructed anew with
\* the snapshot file the earlier run left on disk
Restart ==
    /\ \E hub_ok \in BOOLEAN, device_ok \in BOOLEAN, save_ok \in BOOLEAN :
          LET snapshot_loads == backup_snapshot = "loadable"
              b == load_backup_model(snapshot_loads, hub_ok, device_ok)
              t == startup_trace(snapshot_loads, hub_ok, device_ok, save_ok) IN
          /\ backup_model' = b.backup_model
          /\ backup_tokenizer' = b.backup_tokenizer
          /\ backup_snapshot' =
                backup_snapshot_after(snapshot_loads, hub_ok, device_ok, save_ok)
          /\ acc' = [op |-> "init", snapshot_before |-> backup_snapshot,
                     trace |-> t, out |-> Returns(NoneVal, <<>>),
                     after_save |-> /\ acc.op = "init"
                                    /\ acc.trace[Len(acc.trace)] =
                                          [step |-> "save_snapshot", ok |-> TRUE],
                     live |-> {}]
    /\ model_cache' = <<>>
    /\ tokenizer_cache' = {}
    /\ UNCHANGED <<file_cache, loop_time, inflight, last>>

\* engine._extract_text_input(input_data)
CallExtractTextInput ==
    /\ \E input_data \in Mappings :
          acc' = [op |-> "extract_text_input", input_data |-> input_data,
                  out |-> Returns(extract_text_input(input_data), <<>>)]
    /\ UNCHANGED <<model_cache, tokenizer_cache, backup_model, backup_tokenizer,
                   backup_snapshot, file_cache, loop_time, inflight, last>>

NextPrompt == CallExtractTextInput

SpecPrompt == Init /\ [][NextPrompt]_vars

\* Calls of the two snapshot functions on one snapshot file, which starts
\* absent.  acc.written is the pair the file was last written from.
InitSnapshot ==
    /\ model_cache = <<>>
    /\ tokenizer_cache = {}
    /\ backup_model = NoModel
    /\ backup_tokenizer = NoModel
    /\ backup_snapshot = AbsentFile
    /\ file_cache = [c \in Cids |-> [cached |-> FALSE]]
    /\ loop_time = 0
    /\ inflight = <<>>
    /\ last = NoExchange
    /\ acc = NoCall

Written == IF "written" \in DOMAIN acc THEN acc.written ELSE NoCall

\* self._save_model_snapshot(model, tokenizer, snapshot_file)
CallSaveSnapshot ==
    /\ \E model \in SnapshotModels, tokenizer \in SnapshotTokenizers, env \in SaveEnvs :
          LET r == save_model_snapshot(backup_snapshot, model, tokenizer, env) IN
          /\ backup_snapshot' = r.file
          /\ acc' = [op |-> "save_snapshot", before |-> backup_snapshot,
                     failed |-> (~env.save_pretrained_ok \/ env.write # "ok"),
                     out |-> r.out,
                     written |-> IF r.file = backup_snapshot /\ r.out.calls # <<>>
                                 THEN Written
                                 ELSE IF r.file.kind = "pickle"
                                 THEN [op |-> "save_snapshot", model |-> model,
                                       tokenizer |-> tokenizer]
                                 ELSE NoCall]
    /\ UNCHANGED <<model_cache, tokenizer_cache, backup_model, backup_tokenizer,
                   file_cache, loop_time, inflight, last>>

\* self._load_model_snapshot(snapshot_file)
CallLoadSnapshot ==
    /\ \E library_ok \in BOOLEAN :
          acc' = [op |-> "load_snapshot", library_ok |-> library_ok,
                  out |-> load_model_snapshot(backup_snapshot, library_ok),
                  written |-> Written]
    /\ UNCHANGED <<model_cache, tokenizer_cache, backup_model, backup_tokenizer,
                   backup_snapshot, file_cache, loop_time, inflight, last>>

NextSnapshot ==
    \/ CallSaveSnapshot
    \/ CallLoadSnapshot

SpecSnapshot == InitSnapshot /\ [][NextSnapshot]_vars

NextEngine ==
    \/ Restart
    \/ CallLoadModel
    \/ CallRunInference
    \/ CallExecuteInference
    \/ CallUnloadModel
    \/ CallClearCache

SpecEngine == Init /\ [][NextEngine]_vars

----------------------------------------------------------------------------
(* Direct calls of the storage client's methods.  download_file suspends   *)
(* at its I/O, so it is two steps; calls are made one after the other.     *)

\* the download_file calls that returned since the cache file of each
\* content identifier was last cleared: the content the latest one returned
Downloaded == IF "dl" \in DOMAIN acc THEN acc.dl ELSE [c \in Cids |-> NoCall]

\* lighthouse_client.download_file(cid) is called
DownloadBegin ==
    /\ Len(inflight) < Capacity
    /\ \E cid \in Cids :
          inflight' = Append(inflight, [ep |-> "download_file", cid |-> cid,
                                        phase |-> download_begin(file_cache, cid)])
    /\ UNCHANGED <<model_cache, tokenizer_cache, backup_model, backup_tokenizer, backup_snapshot,
                   file_cache, loop_time, last, acc>>

\* the I/O of a download_file call completes
DownloadFinish ==
    \E i \in 1..Len(inflight) :
       /\ inflight[i].ep = "download_file"
       /\ \E net \in NetOutcomes :
             LET cid == inflight[i].cid
                 d == download_finish(file_cache, cid, inflight[i].phase, net) IN
             /\ file_cache' = d.file_cache
             /\ acc' = [op |-> "download_file", cid |-> cid,
                        phase |-> inflight[i].phase, net |-> net,
                        before |-> file_cache, out |-> d.out,
                        prev |-> Downloaded[cid],
                        dl |-> IF d.out.raised THEN Downloaded
                               ELSE [Downloaded EXCEPT
                                        ![cid] = [op |-> "download_file",
                                                  content |-> d.out.ret]]]
       /\ inflight' = RemoveAt(inflight, i)
       /\ UNCHANGED <<model_cache, tokenizer_cache, backup_model, backup_tokenizer, backup_snapshot,
                      loop_time, last>>

\* await lighthouse_client.clear_cache(cid)
CallLighthouseClearCache ==
    /\ \E cid \in Cids \cup {NoneVal, ""}, rm \in RemoveEnvs :
          LET r == lighthouse_clear_cache(file_cache, cid, rm) IN
          /\ file_cache' = r.file_cache
          /\ acc' = [op |-> "clear_cache", cid |-> cid, before |-> file_cache,
                     out |-> r.out, error_logged |-> r.error_logged,
                     dl |-> [c \in Cids |->
                               IF is_cached(r.file_cache, c) THEN Downloaded[c]
                               ELSE NoCall]]
    /\ UNCHANGED <<model_cache, tokenizer_cache, backup_model, backup_tokenizer, backup_snapshot,
                   loop_time, inflight, last>>

\* await lighthouse_client.validate_file_integrity(content, expected_checksum)
CallValidateFileIntegrity ==
    /\ \E content \in IntegrityContents, expected_checksum \in Checksums :
          acc' = [op |-> "validate_file_integrity", content |-> content,
                  expected_checksum |-> expected_checksum,
                  out |-> validate_file_integrity(content, expected_checksum),
                  dl |-> Downloaded]
    /\ UNCHANGED <<model_cache, tokenizer_cache, backup_model, backup_tokenizer, backup_snapshot,
                   file_cache, loop_time, inflight, last>>

\* await lighthouse_client.decrypt_file(encrypted_content, decryption_key)
CallDecryptFile ==
    /\ \E cid \in Cids, key \in Keys \ {NoneVal} :
          acc' = [op |-> "decrypt_file", content |-> Blob(cid), key |-> key,
                  out |-> decrypt_file(Blob(cid), key), dl |-> Downloaded]
    /\ UNCHANGED <<model_cache, tokenizer_cache, backup_model, backup_tokenizer, backup_snapshot,
                   file_cache, loop_time, inflight, last>>

NextStorage ==
    \/ DownloadBegin
    \/ DownloadFinish
    \/ CallLighthouseClearCache
    \/ CallDecryptFile
    \/ CallValidateFileIntegrity

SpecStorage == Init /\ [][NextStorage]_vars

----------------------------------------------------------------------------
(* Properties of the access-control component (under SpecAccess) *)

AccCalled == acc.op = "validate_user_access"

\* the access check got as far as a successful read of an active model's
\* record and of the user's balance
ReadsSucceed ==
    /\ AccCalled
    /\ is_address(acc.user_address)
    /\ acc.env.vault_ok
    /\ acc.env.info.ok
    /\ acc.env.info.val.active
    /\ acc.env.token_ok
    /\ acc.env.balance.ok

\* C3: for a valid address and an active model whose reads succeed,
\* has_access is true exactly when the balance is >= 10^18 (hi digit >= 10^9):
\* exactly 10^18 is granted, 10^18 - 1 is denied, whatever the price is, and
\* the result carries the balance, the threshold 10^18 and the full model info.
C3_AccessThreshold ==
    ReadsSucceed =>
        /\ ~acc.out.raised
        /\ LET r == acc.out.ret
               b == acc.env.balance.val
           IN /\ DOMAIN r = {"has_access", "user_balance", "min_balance_required",
                             "model_info"}
              /\ r.has_access = (b[1] >= 1000000000)
              /\ (b = <<1000000000, 0>> => r.has_access)
              /\ (b = <<999999999, 999999999>> => ~r.has_access)
              /\ r.user_balance = b
              /\ r.min_balance_required = <<1000000000, 0>>
              /\ r.model_info = acc.env.info.val

\* a balance of exactly 10^18 is granted although the price is above it
C3_Witness ==
    /\ ReadsSucceed
    /\ acc.env.balance.val = <<1000000000, 0>>
    /\ acc.env.info.val.price_per_inference = Wei(2 * Base, 7)
    /\ acc.out.ret.has_access

InactiveModel ==
    /\ AccCalled
    /\ is_address(acc.user_address)
    /\ acc.env.vault_ok
    /\ acc.env.info.ok
    /\ ~acc.env.info.val.active

\* C8: for an inactive model the check denies with "Model is not active"
\* whatever the balance, returns only cid, active and owner as model info,
\* and never queries the token balance.
C8_InactiveDenied ==
    InactiveModel =>
        /\ ~acc.out.raised
        /\ acc.out.ret.has_access = FALSE
        /\ acc.out.ret.error = "Model is not active"
        /\ acc.out.ret.model_info =
              [cid |-> acc.env.info.val.cid, active |-> FALSE,
               owner |-> acc.env.info.val.owner]
        /\ DOMAIN acc.out.ret = {"has_access", "error", "model_info"}
        /\ \A i \in 1..Len(acc.out.calls) : acc.out.calls[i] # "balanceOf"

\* an inactive model checked for a user who holds two tokens
C8_Witness ==
    /\ InactiveModel
    /\ acc.env.token_ok
    /\ acc.env.balance.ok
    /\ acc.env.balance.val = Wei(2 * Base, 5)
    /\ ~acc.out.ret.has_access

\* C9: an address that fails format validation is rejected with
\* "Invalid user address" before any contract call.
C9_InvalidAddressFirst ==
    (AccCalled /\ acc.user_address \notin ValidAddresses) =>
        /\ ~acc.out.raised
        /\ acc.out.ret = [has_access |-> FALSE, error |-> "Invalid user address"]
        /\ acc.out.calls = <<>>

\* an invalid address checked while the chain would have granted access
C9_Witness ==
    /\ AccCalled
    /\ acc.user_address = "not-an-address"
    /\ acc.env.vault_ok /\ acc.env.info.ok /\ acc.env.info.val.active
    /\ acc.env.token_ok /\ acc.env.balance.ok
    /\ acc.env.balance.val = Wei(2 * Base, 5)
    /\ acc.out.calls = <<>>

\* C10: validate_user_access never raises; a failed getModelInfo or balanceOf
\* read yields has_access = false with an error text; each read is attempted
\* at most once, in the order getModelInfo, balanceOf, and nothing is read
\* after the failing read.
C10_NeverRaisesNoRetry ==
    AccCalled =>
        /\ ~acc.out.raised
        /\ "has_access" \in DOMAIN acc.out.ret
        /\ acc.out.calls \in {<<>>, <<"getModelInfo">>, <<"getModelInfo", "balanceOf">>}
        /\ (is_address(acc.user_address) /\ acc.env.vault_ok /\ ~acc.env.info.ok) =>
              /\ acc.out.ret.has_access = FALSE
              /\ "error" \in DOMAIN acc.out.ret
              /\ acc.out.calls = <<"getModelInfo">>
        /\ (is_address(acc.user_address) /\ acc.env.vault_ok /\ acc.env.info.ok
              /\ acc.env.info.val.active /\ acc.env.token_ok /\ ~acc.env.balance.ok) =>
              /\ acc.out.ret.has_access = FALSE
              /\ "error" \in DOMAIN acc.out.ret
              /\ acc.out.calls = <<"getModelInfo", "balanceOf">>
        /\ (~acc.out.ret.has_access /\ "error" \notin DOMAIN acc.out.ret) =>
              "user_balance" \in DOMAIN acc.out.ret

\* the balance read fails after a successful model-info read
C10_Witness ==
    /\ AccCalled
    /\ is_address(acc.user_address)
    /\ acc.env.vault_ok /\ acc.env.info.ok /\ acc.env.info.val.active
    /\ acc.env.token_ok /\ ~acc.env.balance.ok
    /\ acc.out.calls = <<"getModelInfo", "balanceOf">>
    /\ ~acc.out.ret.has_access

PaymentCalled == acc.op = "validate_payment"

\* C11: validate_payment never raises and returns a boolean; it returns True
\* exactly when the access check it runs grants access and the payment
\* amount is >= the price_per_inference of the model; a denied check, a
\* payment below the price and an internal failure all give False.
C11_PaymentFailClosed ==
    PaymentCalled =>
        /\ ~acc.out.raised
        /\ acc.out.ret \in BOOLEAN
        /\ acc.out.ret <=>
              /\ ~acc.access.raised
              /\ acc.access.ret.has_access
              /\ acc.payment_amount.ok
              /\ GE(acc.payment_amount.val,
                    acc.access.ret.model_info.price_per_inference)
        /\ acc.out.calls = acc.access.calls

\* a granted check and a payment equal to the price
C11_Witness ==
    /\ PaymentCalled
    /\ acc.access.ret.has_access
    /\ acc.payment_amount.ok
    /\ acc.payment_amount.val = acc.access.ret.model_info.price_per_inference
    /\ acc.out.ret = TRUE

----------------------------------------------------------------------------
(* Properties of the inference engine (under SpecEngine) *)

BackupAvailable == backup_model # NoModel /\ backup_tokenizer # NoModel

\* a string result that is empty or only whitespace, or an absent result
Blank(ret) == "result" \notin DOMAIN ret \/ ret.result = ""

\* C1: with the backup model available, a call run_inference(model_id,
\* input_data) on the engine, for a loaded or a never-loaded identifier,
\* does not raise and returns status success with the type tag of the cached
\* model, backup_huggingface or default_fallback.
C1_RunInferenceAlwaysSucceeds ==
    (acc.op = "run_inference" /\ BackupAvailable) =>
        /\ ~acc.out.raised
        /\ acc.out.ret.status = "success"
        /\ acc.out.ret.model_type \in
              {"backup_huggingface", "default_fallback"}
              \cup (IF acc.loaded THEN {CacheGet(model_cache, acc.model_id).type}
                    ELSE {})

\* C7: every record with status success that the engine's inference entry
\* points return (run_inference, and execute_inference which forwards to it
\* and to the backup path) carries a non-empty result.
C7_SuccessResultNonEmpty ==
    (/\ acc.op \in {"run_inference", "execute_inference"}
     /\ ~acc.out.raised
     /\ acc.out.ret.status = "success") => ~Blank(acc.out.ret)

LoadCalled == acc.op = "load_model"

\* C12: for an identifier that is not cached, load_model accepts content of
\* exactly max_model_size_mb * 1MB bytes as far as the size goes, and answers
\* content one byte longer, whatever its format, with the size error: no
\* loader is tried and the cache is left as it was.
C12_SizeLimit ==
    (LoadCalled /\ ~CacheHas(acc.before, acc.model_id)) =>
        /\ acc.content.len <= SizeLimitBytes =>
              /\ acc.out.ret.message # "Failed to load model: size"
              /\ acc.tried # <<>>
        /\ acc.content.len > SizeLimitBytes =>
              /\ acc.out.ret.status = "error"
              /\ acc.out.ret.message = "Failed to load model: size"
              /\ acc.tried = <<>>
              /\ model_cache = acc.before
              /\ ~CacheHas(model_cache, acc.model_id)

\* a loadable format, one byte over the limit
C12_Witness ==
    /\ LoadCalled
    /\ ~CacheHas(acc.before, acc.model_id)
    /\ acc.content = [len |-> SizeLimitBytes + 1, fmt |-> "torch"]
    /\ acc.out.ret.status = "error"

\* C13: load_model for an identifier that is already cached returns success
\* "Model loaded from cache" whatever bytes it is given: the size is not
\* tested, no loader is tried, and the cache (each entry's type tag and
\* loaded_at) is left exactly as it was.
C13_LoadIdempotent ==
    (LoadCalled /\ CacheHas(acc.before, acc.model_id)) =>
        /\ acc.out.ret = [status |-> "success", message |-> "Model loaded from cache"]
        /\ acc.tried = <<>>
        /\ model_cache = acc.before

\* a cached pytorch model, loaded again with oversized bytes of another
\* format at a later time
C13_Witness ==
    /\ LoadCalled
    /\ CacheHas(acc.before, acc.model_id)
    /\ CacheGet(acc.before, acc.model_id).type = "pytorch"
    /\ CacheGet(acc.before, acc.model_id).loaded_at < loop_time - 1
    /\ acc.content = [len |-> SizeLimitBytes + 1, fmt |-> "pickle"]

\* the identifiers get_loaded_models lists
Listed == {engine_get_loaded_models(model_cache)[i] : i \in 1..Len(model_cache)}

\* C18: unload_model of an identifier that is not cached returns False and
\* changes nothing; of a cached identifier it returns True and removes that
\* entry only, after which get_model_info finds nothing for it; clear_cache
\* leaves get_loaded_models empty; and get_loaded_models lists, each once,
\* exactly the identifiers loaded and not unloaded or cleared since.
C18_CacheOperations ==
    /\ Listed = Live
    /\ Cardinality(Listed) = Len(engine_get_loaded_models(model_cache))
    /\ acc.op = "unload_model" =>
          IF CacheHas(acc.before, acc.model_id)
          THEN /\ acc.out.ret = TRUE
               /\ model_cache = SelectSeq(acc.before, LAMBDA e : e.id # acc.model_id)
               /\ Len(model_cache) = Len(acc.before) - 1
               /\ ~engine_get_model_info(model_cache, acc.model_id).found
          ELSE /\ acc.out.ret = FALSE
               /\ model_cache = acc.before
    /\ acc.op = "clear_cache" => engine_get_loaded_models(model_cache) = <<>>

\* one of two cached models was unloaded
C18_Witness ==
    /\ acc.op = "unload_model"
    /\ Len(acc.before) = 2
    /\ acc.out.ret = TRUE
    /\ Len(model_cache) = 1

----------------------------------------------------------------------------
(* Properties of the storage client (under SpecStorage) *)

DownloadCalled == acc.op = "download_file"

\* the call found the cache file and the file was still there when read
CacheHit == acc.phase = "reading" /\ is_cached(acc.before, acc.cid)

\* the call fetched from the gateway and the body was stored
FetchOk == acc.phase = "fetching" /\ acc.net.kind = "ok"

\* C14: a download_file call that finds the cache file makes no network
\* call and returns the file's content; a call that fetches makes one GET
\* and has stored the body in the cache file when it returns; a call that
\* returns after an earlier call for the same identifier returned, with no
\* clear in between, makes no GET and returns the same bytes.
C14_DownloadCached ==
    DownloadCalled =>
        /\ acc.phase = "reading" => acc.out.calls = <<>>
        /\ CacheHit => (~acc.out.raised /\ acc.out.ret = acc.before[acc.cid].content)
        /\ acc.phase = "fetching" => acc.out.calls = <<"GET">>
        /\ FetchOk =>
              /\ ~acc.out.raised
              /\ file_cache[acc.cid] = [cached |-> TRUE, content |-> acc.out.ret]
        /\ (acc.prev # NoCall /\ ~acc.out.raised) =>
              /\ acc.out.calls = <<>>
              /\ acc.out.ret = acc.prev.content

\* the second of two calls for one identifier, the first of which fetched
C14_Witness ==
    /\ DownloadCalled
    /\ acc.prev # NoCall
    /\ ~acc.out.raised
    /\ acc.out.ret = Blob(acc.cid)
    /\ acc.out.calls = <<>>

\* C15: a gateway answer with an HTTP error status makes download_file raise
\* the download failure that carries the status code; a transport error and
\* a cache read or write error make it raise the generic download error;
\* bytes are returned only after a cache hit or a fetch that succeeded.
C15_DownloadRaises ==
    DownloadCalled =>
        /\ (acc.phase = "fetching" /\ acc.net.kind = "http_error") =>
              /\ acc.out.raised
              /\ acc.out.exc = [msg |-> "Failed to download file",
                                status_code |-> acc.net.status_code]
        /\ (acc.phase = "fetching"
               /\ acc.net.kind \in {"transport_error", "open_error", "write_error"}) =>
              /\ acc.out.raised
              /\ acc.out.exc = [msg |-> "Download error"]
        /\ (acc.phase = "reading" /\ ~is_cached(acc.before, acc.cid)) =>
              /\ acc.out.raised
              /\ acc.out.exc = [msg |-> "Download error"]
        /\ ~acc.out.raised => (CacheHit \/ FetchOk)

C15_Witness ==
    /\ DownloadCalled
    /\ acc.net = [kind |-> "http_error", status_code |-> 503]
    /\ acc.out.raised
    /\ acc.out.exc.msg = "Failed to download file"

\* C20: decrypt_file, for any content and any string key, does not raise and
\* returns the content it was given when it cannot decrypt.
C20_DecryptNeverRaises ==
    acc.op = "decrypt_file" =>
        /\ ~acc.out.raised
        /\ acc.out.ret = acc.content

----------------------------------------------------------------------------
(* Properties of the HTTP endpoints (under Spec) *)

Has(r, f) == f \in DOMAIN r

LoadAnswered == last.ep = "load"

Denied(r) == Has(r, "access") /\ ~r.access.has_access

DownloadFailed(r) == Has(r, "download") /\ r.download.raised

DecryptFailed(r) ==
    Has(r, "decrypt") /\ Has(r.decrypt, "raised") /\ r.decrypt.raised

EngineLoadError(r) == Has(r, "load_result") /\ r.load_result.status = "error"

Faulted(r) == Has(r, "fault")

\* C2: POST /api/v1/inference calls the access check, the model-loaded check
\* and then the engine's run_inference whatever the two checks said; when
\* run_inference returns, the answer is status success with its result.
C2_ChecksAreNotGuards ==
    last.ep = "inference" =>
        /\ last.log = <<"validate_user_access", "get_model_info", "run_inference">>
        /\ Has(last, "engine")
        /\ ~last.engine.raised =>
              /\ last.out.body.status = "success"
              /\ last.out.body.result = last.engine.ret.result

C2_Witness ==
    /\ last.ep = "inference"
    /\ Denied(last)
    /\ ~last.loaded
    /\ last.log[3] = "run_inference"

\* C4: POST /api/v1/models/load answers 403 when access is denied, 502 when
\* the download fails, 400 when decryption fails or the engine reports a load
\* error, 500 only for an exception that is not an HTTP error, and 200 with
\* status success only when the four steps succeeded.
C4_LoadStatusMapping ==
    LoadAnswered =>
        /\ last.code \in {200, 400, 403, 500, 502}
        /\ Denied(last) => last.code = 403
        /\ DownloadFailed(last) => last.code = 502
        /\ DecryptFailed(last) => last.code = 400
        /\ EngineLoadError(last) => last.code = 400
        /\ last.code = 500 <=> Faulted(last)
        /\ last.code = 403 => Denied(last)
        /\ last.code = 502 => DownloadFailed(last)
        /\ last.code = 400 => (DecryptFailed(last) \/ EngineLoadError(last))
        /\ last.code = 200 =>
              /\ last.access.has_access
              /\ ~last.download.raised
              /\ ~DecryptFailed(last)
              /\ last.load_result.status = "success"
              /\ last.out.body.status = "success"
              /\ last.out.body.load_result = last.load_result

C4_Witness ==
    /\ LoadAnswered
    /\ last.code = 400
    /\ DecryptFailed(last)

LoadLogs ==
    {<<"validate_user_access">>,
     <<"validate_user_access", "download_file">>,
     <<"validate_user_access", "download_file", "decrypt_file">>,
     <<"validate_user_access", "download_file", "load_model">>,
     <<"validate_user_access", "download_file", "decrypt_file", "load_model">>}

InLog(step, log) == \E i \in 1..Len(log) : log[i] = step

\* C5: a load-model request performs access check, download, decrypt (only
\* with a decryption key), engine load in this order; a denied access check
\* is followed by no other step, a failed download by neither decrypt nor
\* engine load, and a handler waiting for its download has passed the access
\* check and nothing else.
C5_LoadStepOrder ==
    /\ \A i \in 1..Len(inflight) :
          /\ inflight[i].log = <<"validate_user_access", "download_file">>
          /\ inflight[i].access.has_access
    /\ LoadAnswered =>
          /\ last.log \in LoadLogs
          /\ InLog("decrypt_file", last.log) => Truthy(last.req.decryption_key)
          /\ Denied(last) => last.log = <<"validate_user_access">>
          /\ DownloadFailed(last) =>
                last.log = <<"validate_user_access", "download_file">>
          /\ InLog("load_model", last.log) =>
                (last.access.has_access /\ ~last.download.raised /\ ~DecryptFailed(last))

C5_Witness ==
    /\ LoadAnswered
    /\ last.log = <<"validate_user_access", "download_file", "decrypt_file", "load_model">>

\* the load flow an answered request went through: the load endpoint's own,
\* or the one the combined endpoint ran because the model was not loaded
EnforcedLoad ==
    IF last.ep = "load" THEN last
    ELSE IF last.ep = "run" /\ last.loaded_here THEN last.load
    ELSE NoCall

\* C6: where the access check is enforced (load-model, and load-and-run when
\* it has to load), a denied check is answered with a 403 or 400 status that
\* carries the reason, after a single access check.
C6_DeniedIs4xx ==
    Denied(EnforcedLoad) =>
        /\ last.code \in {400, 403}
        /\ last.out.detail.reason = access_denied_detail(EnforcedLoad.access).reason
        /\ EnforcedLoad.log = <<"validate_user_access">>

RunAnswered == last.ep = "run"

\* C16: POST /api/v1/inference/run goes through the load-model flow exactly
\* when the identifier is not in the active-model cache at that moment; once
\* the model is loaded it calls the inference endpoint with the fixed sample
\* input, and of the caller's request only model_id, user_address and
\* user_signature are handed on.
C16_LoadOnlyIfAbsentThenSample ==
    /\ \A i \in 1..Len(inflight) :
          inflight[i].ep = "run" => ~CacheHas(model_cache, inflight[i].req.model_id)
    /\ RunAnswered =>
          /\ last.loaded_here <=> InLog("load_model_endpoint", last.log)
          /\ Has(last, "load") <=> last.loaded_here
          /\ Has(last, "done") =>
                (last.loaded_here <=> ~CacheHas(model_cache, last.req.model_id))
          /\ Has(last, "inference") <=> (last.loaded_here => ~last.load.out.raised)
          /\ Has(last, "inference") =>
                /\ last.inference_request =
                      [model_id |-> last.req.model_id,
                       user_address |-> last.req.user_address,
                       input_data |-> [text |-> "Hello, this is a test inference"],
                       user_signature |-> last.req.user_signature]
                /\ last.inference.log[Len(last.inference.log)] = "run_inference"

\* the model was absent, the load flow succeeded and inference ran
C16_Witness ==
    /\ RunAnswered
    /\ last.loaded_here
    /\ ~last.load.out.raised
    /\ last.req.cid = "cidB"
    /\ last.inference_request.input_data = SampleInput

\* C17: POST /api/v1/inference never answers with an HTTP error status; an
\* exception raised by the engine's run_inference is reported in a body with
\* status "error", the request's model_id and the exception text.
C17_InferenceErrorsInline ==
    last.ep = "inference" =>
        /\ ~last.out.raised
        /\ last.code = 200
        /\ last.out.body.model_id = last.req.model_id
        /\ last.out.body.status \in {"success", "error"}
        /\ (Has(last, "engine") /\ last.engine.raised) =>
              /\ last.out.body.status = "error"
              /\ last.out.body.error.exc = last.engine.exc

C17_Witness ==
    /\ last.ep = "inference"
    /\ last.engine.raised
    /\ last.out.body.status = "error"

\* C19: no step changes the backup model, the backup tokenizer or the
\* snapshot file: not the engine's clear_cache and unload_model, not
\* DELETE /api/v1/cache, whatever loads, unloads and clears came before.
C19_BackupUntouched ==
    [][/\ backup_model' = backup_model
       /\ backup_tokenizer' = backup_tokenizer
       /\ backup_snapshot' = backup_snapshot]_vars

\* DELETE /api/v1/cache removed loaded models and the backup is in place
C19_Witness ==
    /\ last.ep = "clear_cache"
    /\ last.before # <<>>
    /\ model_cache = <<>>
    /\ BackupAvailable
    /\ backup_snapshot = "loadable"

----------------------------------------------------------------------------
(* Properties of the storage client's integrity check and cache clearing  *)
(* (under SpecStorage)                                                     *)

IntegrityCalled == acc.op = "validate_file_integrity"

\* two strings that differ at most in the case of their letters
EqualIgnoringCase(s, t) ==
    /\ Len(s) = Len(t)
    /\ \A i \in 1..Len(s) : \/ s[i] = t[i]
                            \/ {s[i], t[i]} \in {{"a", "A"}, {"b", "B"}}

\* C21: validate_file_integrity never raises; it returns True when no
\* checksum is given (None or empty); with a checksum it returns True exactly
\* when the content is a bytes object whose SHA-256 hex digest equals the
\* checksum up to letter case, and False otherwise, also for content that
\* is not bytes.
C21_ValidateFileIntegrity ==
    IntegrityCalled =>
       /\ ~acc.out.raised
       /\ acc.out.ret \in BOOLEAN
       /\ ~ChecksumGiven(acc.expected_checksum) => acc.out.ret = TRUE
       /\ ChecksumGiven(acc.expected_checksum) =>
             (acc.out.ret = TRUE <=>
                 /\ acc.content.type = "bytes"
                 /\ EqualIgnoringCase(acc.expected_checksum.s,
                                      sha256_hexdigest(acc.content).ret))

\* a checksum in another letter case than the digest is accepted, and a
\* content that is not bytes was rejected before
C21_Witness ==
    /\ IntegrityCalled
    /\ ChecksumGiven(acc.expected_checksum)
    /\ acc.content.type = "bytes"
    /\ acc.expected_checksum.s # sha256_hexdigest(acc.content).ret
    /\ acc.out = Returns(TRUE, <<>>)

ClearCalled == acc.op = "clear_cache"

\* the identifiers whose cache file the latest clear_cache removed
Removed == {c \in Cids : is_cached(acc.before, c) /\ ~is_cached(file_cache, c)}

\* C22: clear_cache never raises.  With a cid it leaves every other entry as
\* it was and, unless os.remove failed, removes that cid's entry; without one
\* it removes every cached file unless an os.remove failed.  Every removed
\* identifier is then not cached and a download_file for it goes to the
\* network.
C22_ClearCache ==
    ClearCalled =>
       /\ ~acc.out.raised
       /\ Truthy(acc.cid) =>
             /\ \A c \in Cids \ {acc.cid} : file_cache[c] = acc.before[c]
             /\ ~acc.error_logged => ~is_cached(file_cache, acc.cid)
             /\ acc.error_logged => file_cache = acc.before
       /\ (~Truthy(acc.cid) /\ ~acc.error_logged) =>
             \A c \in Cids : ~is_cached(file_cache, c)
       /\ \A c \in Cids : is_cached(file_cache, c) => file_cache[c] = acc.before[c]
       /\ \A c \in Removed : /\ ~is_cached(file_cache, c)
                             /\ download_begin(file_cache, c) = "fetching"

\* one of two cached files was cleared by its cid and the other is still there
C22_Witness ==
    /\ ClearCalled
    /\ Truthy(acc.cid)
    /\ Removed = {acc.cid}
    /\ \E c \in Cids \ {acc.cid} : is_cached(file_cache, c)

----------------------------------------------------------------------------
(* Properties of the model management endpoints (under Spec) *)

\* the exchange just completed is GET or DELETE /api/v1/models/{model_id}
ByModelId(r) == r.ep \in {"get_model_info", "unload_model"}

\* C23: GET and DELETE /api/v1/models/{model_id} answer 404 exactly when the
\* identifier is not in the active-model cache when they run and 200
\* otherwise; after a DELETE answered 200 the identifier is out of the cache,
\* it comes back only by a load request for it, and a GET or DELETE for it
\* right after answers 404; GET /api/v1/models lists the cache with count
\* equal to the length of the list.
C23_ModelEndpoints ==
    /\ [](/\ ByModelId(last) => last.code \in {200, 404}
          /\ last.ep = "get_model_info" =>
                (last.code = 404 <=> ~CacheHas(model_cache, last.req.model_id))
          /\ last.ep = "unload_model" =>
                /\ last.code = 404 <=>
                      (\A i \in DOMAIN last.before : last.before[i] # last.req.model_id)
                /\ ~CacheHas(model_cache, last.req.model_id)
          /\ last.ep = "list_loaded_models" =>
                /\ last.code = 200
                /\ last.out.body.loaded_models = CacheKeys(model_cache)
                /\ last.out.body.count = Len(last.out.body.loaded_models))
    /\ [][/\ \A m \in ModelIds :
                (~CacheHas(model_cache, m) /\ CacheHas(model_cache', m)) =>
                   /\ last'.ep \in {"load", "run"}
                   /\ last'.req.model_id = m
          /\ (/\ last.ep = "unload_model"
              /\ last.code = 200
              /\ ByModelId(last')
              /\ last'.req.model_id = last.req.model_id) => last'.code = 404]_vars

\* a loaded model was unloaded with 200 while another one stayed listed
C23_Witness ==
    /\ last.ep = "unload_model"
    /\ last.code = 200
    /\ Len(last.before) = 2
    /\ Len(model_cache) = 1

----------------------------------------------------------------------------
(* Properties of the fallback chain (under SpecEngine) *)

\* the steps of the chain that the latest inference call went through
Chain == acc.out.calls

InChain(step) == \E i \in DOMAIN Chain : Chain[i] = step

\* C24: a run_inference call goes through the chain primary, cached backup,
\* fresh download in this order: the primary model is called only for a
\* cached identifier and an identifier that is not cached goes straight to
\* the cached backup; the cached backup comes first or right after the
\* primary; the fresh download comes right after the cached backup; a
\* primary success ends the chain.
C24_FallbackChainOrder ==
    acc.op = "run_inference" =>
       /\ InChain("primary") => acc.loaded
       /\ ~acc.loaded => (Chain # <<>> /\ Chain[1] = "backup_cached")
       /\ \A i \in DOMAIN Chain :
             /\ Chain[i] = "primary" => i = 1
             /\ Chain[i] = "backup_cached" => (i = 1 \/ Chain[i - 1] = "primary")
             /\ Chain[i] = "backup_fresh" => (i > 1 /\ Chain[i - 1] = "backup_cached")
       /\ (/\ ~acc.out.raised
           /\ "fallback" \notin DOMAIN acc.out.ret) => Chain = <<"primary">>

\* C25: when the chain reaches the fresh download and the download works,
\* the call returns status success tagged default_fallback with fallback and
\* default_response set.
C25_FinalRecoverySucceeds ==
    (/\ acc.op = "execute_inference"
     /\ InChain("backup_fresh")
     /\ acc.fresh_download_ok) =>
        /\ ~acc.out.raised
        /\ acc.out.ret.status = "success"
        /\ acc.out.ret.model_id = "default_fallback"
        /\ acc.out.ret.fallback = TRUE
        /\ acc.out.ret.default_response = TRUE

\* C27: run_inference on a cached model whose primary call times out or
\* raises does not raise: it returns the backup path's record (fallback set)
\* after the primary call, and the model is still cached.
C27_TimeoutLikeException ==
    (/\ acc.op = "run_inference"
     /\ acc.loaded
     /\ acc.primary \in {"timeout", "raise"}) =>
        /\ ~acc.out.raised
        /\ acc.out.ret.status = "success"
        /\ acc.out.ret.fallback = TRUE
        /\ Chain[1] = "primary"
        /\ InChain("backup_cached")
        /\ CacheHas(model_cache, acc.model_id)

----------------------------------------------------------------------------
(* Properties of format detection (under SpecEngine) *)

\* the loaders of _load_model_content in the order of the source, with the
\* type tag each one gives
LoaderOrder == <<"torch.load", "pickle.load", "pipeline">>

TypeTagOf(loader) ==
    CASE loader = "torch.load" -> "pytorch"
      [] loader = "pickle.load" -> "pickle"
      [] loader = "pipeline" -> "huggingface_pipeline"

\* the latest call was a load_model that went on to interpret the content
InterpretingLoad == LoadCalled /\ acc.tried # <<>>

\* C28: a load_model that interprets the content calls torch.load, then
\* pickle.load, then the hub pipeline, and stops at the first that works:
\* content torch.load reads is tagged pytorch, content only pickle.load
\* reads is tagged pickle, any other content is tagged huggingface_pipeline
\* when the pipeline loads; the entry inserted carries that tag.  The call
\* answers the format error only after all three were tried, and then the
\* cache is as before.
C28_FormatDetectionOrder ==
    InterpretingLoad =>
       LET n == Len(acc.tried)
           res == acc.out.ret IN
       /\ n <= Len(LoaderOrder)
       /\ acc.tried = SubSeq(LoaderOrder, 1, n)
       /\ acc.content.fmt = "torch" => (n = 1 /\ res.status = "success")
       /\ acc.content.fmt = "pickle" => (n = 2 /\ res.status = "success")
       /\ acc.content.fmt = "other" => n = 3
       /\ res.status = "success" =>
             /\ res.model_type = TypeTagOf(acc.tried[n])
             /\ CacheHas(model_cache, acc.model_id)
             /\ CacheGet(model_cache, acc.model_id).type = res.model_type
             /\ ~CacheHas(acc.before, acc.model_id)
       /\ res.status = "error" =>
             /\ n = 3
             /\ res.message = "Failed to load model: format"
             /\ model_cache = acc.before

\* content that neither torch.load nor pickle.load reads was loaded as the
\* hub pipeline
C28_Witness ==
    /\ InterpretingLoad
    /\ acc.content.fmt = "other"
    /\ acc.out.ret.status = "success"
    /\ CacheGet(model_cache, acc.model_id).type = "huggingface_pipeline"

----------------------------------------------------------------------------
(* Properties of the engine's construction (under SpecEngine) *)

Started == acc.op = "init"

\* the construction just done took this step / took it with success
Took(step) == \E i \in DOMAIN acc.trace : acc.trace[i].step = step

Did(step) == \E i \in DOMAIN acc.trace : acc.trace[i] = [step |-> step, ok |-> TRUE]

BackupUnset == backup_model = NoModel /\ backup_tokenizer = NoModel

\* C29: constructing the engine never raises and first tries the snapshot.
\* When the snapshot loads there is no hub fetch, the snapshot file is not
\* written, and the backup is set once the model is on the device.  When it
\* does not load the hub is fetched; after a fetch and device move that work
\* the backup is set and the snapshot is saved, and when the save works the
\* file loads, so that a construction that follows it takes the snapshot
\* and fetches nothing.  When no path gives a model both slots are None.
C29_BackupStartup ==
    Started =>
       /\ ~acc.out.raised
       /\ acc.trace[1].step = "load_snapshot"
       /\ acc.trace[1].ok <=> acc.snapshot_before = "loadable"
       /\ Did("load_snapshot") =>
             /\ ~Took("hub_fetch")
             /\ ~Took("save_snapshot")
             /\ backup_snapshot = acc.snapshot_before
             /\ Did("to_device") => BackupAvailable
       /\ ~Did("load_snapshot") =>
             /\ acc.trace[2].step = "hub_fetch"
             /\ (Did("hub_fetch") /\ Did("to_device")) =>
                   /\ BackupAvailable
                   /\ Took("save_snapshot")
                   /\ acc.trace[Len(acc.trace)].step = "save_snapshot"
             /\ Did("save_snapshot") => backup_snapshot = "loadable"
             /\ Took("save_snapshot") => (Did("hub_fetch") /\ Did("to_device"))
       /\ acc.after_save => (Did("load_snapshot") /\ ~Took("hub_fetch"))
       /\ BackupAvailable \/ BackupUnset
       /\ (~Did("to_device")) => BackupUnset

\* a construction that found the snapshot saved by the one before it
C29_Witness ==
    /\ Started
    /\ acc.after_save
    /\ Did("load_snapshot")
    /\ BackupAvailable

----------------------------------------------------------------------------
(* Properties of prompt extraction (under SpecPrompt) *)

Extracted == acc.op = "extract_text_input"

\* the fields of the latest input mapping
Fields == acc.input_data

\* one of the five named keys is present
Named == \E n \in DOMAIN PromptKeys : HasKey(Fields, PromptKeys[n])

\* the value of the first of the named keys that is present, as a string
FirstNamedValue ==
    LET n == CHOOSE n \in DOMAIN PromptKeys :
                /\ HasKey(Fields, PromptKeys[n])
                /\ \A k \in 1..(n - 1) : ~HasKey(Fields, PromptKeys[k]) IN
    str(Lookup(Fields, PromptKeys[n]))

StringFields == {i \in DOMAIN Fields : Fields[i].value.type = "str"}

IsBlank(x) == \A i \in DOMAIN x : x[i] = " "

NonBlankFields == {i \in StringFields : ~IsBlank(Fields[i].value.v)}

First(S) == CHOOSE i \in S : \A j \in S : i <= j

\* x without the blanks at its two ends
Trimmed(x, y) ==
    /\ y # <<>> => (y[1] # " " /\ y[Len(y)] # " ")
    /\ \E lead, trail \in 0..Len(x) :
          /\ lead + Len(y) + trail = Len(x)
          /\ \A i \in 1..lead : x[i] = " "
          /\ \A i \in 1..trail : x[Len(x) + 1 - i] = " "
          /\ \A i \in 1..Len(y) : y[i] = x[lead + i]

\* C30 as stated: the value of the first named key present; with none
\* present the first string-valued field; with no string-valued field the
\* default greeting.
C30_Original ==
    Extracted =>
       /\ Named => acc.out.ret = FirstNamedValue
       /\ (~Named /\ StringFields # {}) =>
             acc.out.ret = Fields[First(StringFields)].value.v
       /\ (~Named /\ StringFields = {}) => acc.out.ret = DefaultPrompt

\* C30, amended: the value of the first named key present, as a string; with
\* none present the first string-valued field that is not blank, without
\* the whitespace at its ends; with no such field the default greeting.
C30_PromptExtraction ==
    Extracted =>
       /\ ~acc.out.raised
       /\ Named => acc.out.ret = FirstNamedValue
       /\ (~Named /\ NonBlankFields # {}) =>
             Trimmed(Fields[First(NonBlankFields)].value.v, acc.out.ret)
       /\ (~Named /\ NonBlankFields = {}) => acc.out.ret = DefaultPrompt

\* a blank string field was passed over for the string field after it
C30_Witness ==
    /\ Extracted
    /\ ~Named
    /\ StringFields # {}
    /\ NonBlankFields # {}
    /\ First(StringFields) # First(NonBlankFields)
    /\ acc.out.ret = <<"h">>

----------------------------------------------------------------------------
(* Properties of overlapping load requests (under SpecRace) *)

\* the ended request did the format-interpreting load and wrote the entry
Wrote(e) ==
    /\ e.load_result # NoCall
    /\ e.load_result.status = "success"
    /\ e.load_result.message = "Model loaded successfully"

\* the ended request was answered by the engine's "already cached" branch
FromCache(e) ==
    /\ e.load_result # NoCall
    /\ e.load_result = [status |-> "success", message |-> "Model loaded from cache"]

\* requests i and j (in the order they ended) were for the same identifier,
\* j was suspended when i ended, and neither found the identifier cached
\* when it started
Racing(i, j) ==
    /\ i < j
    /\ Ended[i].model_id = Ended[j].model_id
    /\ Ended[j].no \in Ended[i].pending
    /\ ~Ended[i].cached_at_start
    /\ ~Ended[j].cached_at_start

Writers(m) == {i \in DOMAIN Ended : Ended[i].model_id = m /\ Wrote(Ended[i])}

Entries(m) == {k \in DOMAIN model_cache : model_cache[k].id = m}

\* C26 as stated: of two racing load requests that both reach the engine
\* and succeed, both pass the "already cached" check and do the
\* format-interpreting load, and the entry is the one written by the later.
C26_Original ==
    \A i, j \in DOMAIN Ended :
       (/\ Racing(i, j)
        /\ Ended[i].load_result # NoCall /\ Ended[i].load_result.status = "success"
        /\ Ended[j].load_result # NoCall /\ Ended[j].load_result.status = "success") =>
          /\ Wrote(Ended[i])
          /\ Wrote(Ended[j])
          /\ CacheGet(model_cache, Ended[j].model_id).loaded_at = Ended[j].at

\* C26, amended: a request that reaches the engine while the identifier is
\* cached is answered "loaded from cache" and writes nothing, so of the load
\* requests for one identifier, however they overlap, at most one does the
\* format-interpreting load with success and writes the entry; the entry is
\* never replaced, and the cache holds exactly one entry for the identifier
\* once a request wrote it and none before.
C26_SingleWriter ==
    /\ \A m \in ModelIds :
          /\ Cardinality(Writers(m)) <= 1
          /\ Cardinality(Entries(m)) = Cardinality(Writers(m))
          /\ \A i \in Writers(m) :
                CacheGet(model_cache, m).loaded_at = Ended[i].at
    /\ \A j \in DOMAIN Ended :
          /\ (Ended[j].load_result # NoCall /\ Ended[j].cached_at_resume) =>
                FromCache(Ended[j])
          /\ Wrote(Ended[j]) => ~Ended[j].cached_at_resume
    /\ \A i, j \in DOMAIN Ended :
          (Racing(i, j) /\ Wrote(Ended[i]) /\ Ended[j].load_result # NoCall) =>
             FromCache(Ended[j])

\* two racing requests both answered 200: the first wrote the entry, the
\* second was answered from the cache
C26_Witness ==
    \E i, j \in DOMAIN Ended :
       /\ Racing(i, j)
       /\ Ended[i].code = 200 /\ Ended[j].code = 200
       /\ Wrote(Ended[i])
       /\ FromCache(Ended[j])
       /\ Cardinality(Entries(Ended[j].model_id)) = 1

----------------------------------------------------------------------------
(* Properties of the snapshot functions (under SpecSnapshot) *)

SnapshotLoaded == acc.op = "load_snapshot"

SnapshotSaved == acc.op = "save_snapshot"

LoadedModel == acc.out.ret[1]

LoadedTokenizer == acc.out.ret[2]

BothAbsent == LoadedModel = NoObject /\ LoadedTokenizer = NoObject

----------------------------------------------------------------------------
(* Properties of access enforcement over the HTTP endpoints (under Spec) *)

\* C32: POST /api/v1/inference/run rejects a denied user without calling the
\* engine only through the load flow, which it enters only when the
\* identifier is not cached: the answer is then an HTTP error after the one
\* access check.  When the identifier is cached the load flow is skipped
\* and the inference endpoint calls the engine's run_inference although its
\* access check denied; the answer is a 200 that does not carry the denial.
C32_EnforcementDependsOnCache ==
    RunAnswered =>
       /\ Has(last, "done") =>
             (last.loaded_here <=> ~CacheHas(model_cache, last.req.model_id))
       /\ (last.loaded_here /\ Denied(last.load)) =>
             /\ last.out.raised
             /\ ~Has(last, "inference")
             /\ last.load.log = <<"validate_user_access">>
       /\ ~last.loaded_here =>
             /\ Has(last, "inference")
             /\ Denied(last.inference) =>
                   /\ last.inference.log =
                         <<"validate_user_access", "get_model_info", "run_inference">>
                   /\ last.code = 200
                   /\ ~Has(last.out.body, "access")
       /\ (~Has(last, "inference") /\ Has(last, "load") /\ Denied(last.load)) =>
             last.loaded_here

\* a denied user's request for a cached model reached the engine
C32_Witness ==
    /\ RunAnswered
    /\ ~last.loaded_here
    /\ Denied(last.inference)
    /\ CacheHas(model_cache, last.req.model_id)
    /\ Has(last.inference, "engine")

\* the load flow of an answered exchange r, if it went through one
LoadFlowOf(r) ==
    IF r.ep = "load" THEN r
    ELSE IF r.ep = "run" /\ r.loaded_here THEN r.load
    ELSE NoCall

\* C33: an identifier enters the active-model cache only in a step that
\* completes a load flow (of the load endpoint or of the combined endpoint)
\* for that identifier whose access check returned has_access = True, and
\* no suspended load flow holds a denied access result.
C33_CachedOnlyAfterAccess ==
    /\ [](\A i \in DOMAIN inflight : inflight[i].access.has_access)
    /\ [][\A m \in ModelIds :
             (~CacheHas(model_cache, m) /\ CacheHas(model_cache', m)) =>
                LET flow == LoadFlowOf(last') IN
                /\ last'.ep \in {"load", "run"}
                /\ last'.req.model_id = m
                /\ Has(flow, "access")
                /\ flow.access.has_access
                /\ Has(flow, "load_result")
                /\ flow.load_result.status = "success"]_vars

\* the combined endpoint inserted a model after a granted access check
C33_Witness ==
    /\ RunAnswered
    /\ last.loaded_here
    /\ Has(last.load, "load_result")
    /\ last.load.load_result.message = "Model loaded successfully"
    /\ last.load.access.has_access
    /\ CacheHas(model_cache, last.req.model_id)

\* C34: the load endpoint downloads the content of the request's cid and
\* hands it to the engine; the cid the vault records for the model comes
\* back in model_info of the response and plays no other part: a request
\* whose cid differs from it is answered like any other.
C34_RequestedCidIsLoaded ==
    (LoadAnswered /\ Has(last, "download") /\ ~last.download.raised) =>
       /\ last.download.ret \in {Blob(last.req.cid), Truncated(Blob(last.req.cid))}
       /\ is_cached(file_cache, last.req.cid)
       /\ file_cache[last.req.cid].content = last.download.ret
       /\ (Has(last, "load_result") /\ Has(last.load_result, "model_type")) =>
             (last.load_result.model_type = "pytorch"
                 <=> last.download.ret.fmt = "torch")
       /\ last.code = 200 =>
             last.out.body.model_info = last.access.model_info

\* a model was loaded from a cid that is not the one the vault records
C34_Witness ==
    /\ LoadAnswered
    /\ last.code = 200
    /\ last.req.cid # last.access.model_info.cid
    /\ last.download.ret = Blob(last.req.cid)
    /\ last.load_result.message = "Model loaded successfully"
    /\ CacheHas(model_cache, last.req.model_id)

----------------------------------------------------------------------------
(* Properties of the backup slots (under SpecEngine) *)

\* C35: backup_model and backup_tokenizer are both set or both None in every
\* state: after each construction, whichever of its steps failed, and after
\* every engine call, none of which writes either slot.
C35_BackupSlotsTogether ==
    /\ [](BackupAvailable \/ BackupUnset)
    /\ [][(backup_model' # backup_model \/ backup_tokenizer' # backup_tokenizer)
             => acc'.op = "init"]_vars

\* a construction whose hub fetch worked and whose device move failed left
\* both slots None
C35_Witness ==
    /\ Started
    /\ Did("hub_fetch")
    /\ Took("to_device")
    /\ ~Did("to_device")
    /\ BackupUnset

----------------------------------------------------------------------------
(* Properties of the fresh-download recovery (under SpecEngine) *)

\* the call just made reached the except branch of _run_backup_inference
FreshDownloadRan ==
    /\ acc.op \in {"execute_inference", "run_inference"}
    /\ InChain("backup_fresh")

\* C36: a call whose chain reaches the fresh download leaves backup_model,
\* backup_tokenizer, the snapshot file, model_cache and tokenizer_cache as
\* they were, and so with the backup unset every execute_inference call for
\* an identifier that is not cached goes cached backup, then fresh download
\* again.
C36_FreshDownloadLeavesState ==
    /\ []((acc.op = "execute_inference" /\ ~acc.loaded /\ BackupUnset)
              => Chain = <<"backup_cached", "backup_fresh">>)
    /\ [][FreshDownloadRan'
             => UNCHANGED <<backup_model, backup_tokenizer, backup_snapshot,
                            model_cache, tokenizer_cache>>]_vars

C36_Witness ==
    /\ FreshDownloadRan
    /\ acc.op = "execute_inference"
    /\ acc.fresh_download_ok
    /\ BackupUnset
    /\ backup_snapshot = "none"
    /\ model_cache # <<>>

----------------------------------------------------------------------------
(* Properties of a failed download (under SpecStorage) *)

\* the download_file call just finished went to the gateway and failed on an
\* error status or in the transport
FetchFailed ==
    /\ acc.op = "download_file"
    /\ acc.phase = "fetching"
    /\ acc.net.kind \in {"http_error", "transport_error"}

\* C37: a download_file call that fails on a gateway error status or in the
\* transport raises and leaves every cache file as it was; a content
\* identifier that had no cache file has none afterwards, is_cached is
\* False for it, and the next download_file call for it goes to the gateway
\* again.
C37_FailedDownloadLeavesCache ==
    FetchFailed =>
        /\ acc.out.raised
        /\ file_cache = acc.before
        /\ ~is_cached(acc.before, acc.cid) =>
              /\ ~is_cached(file_cache, acc.cid)
              /\ download_begin(file_cache, acc.cid) = "fetching"

C37_Witness ==
    /\ FetchFailed
    /\ acc.net.kind = "transport_error"
    /\ acc.out.raised
    /\ ~is_cached(file_cache, acc.cid)
    /\ \E c \in Cids : is_cached(file_cache, c)

====
